---- MODULE Spec2Model ----
(***************************************************************************)
(* Dispatch and lifecycle core of the cleaning-service backend:            *)
(*   app/services/job_state_machine.py   JobStateMachine                   *)
(*   app/api/cleaner_actions.py          cleaner endpoints, go-online/off  *)
(*   app/api/bookings.py                 create / cancel / admin status    *)
(*   app/api/payments.py                 checkout, verify, webhook, refund *)
(*   app/api/admin_dashboard.py          admin assign / unassign           *)
(*   app/services/allocation_engine.py   allocation commit                 *)
(*   app/services/sla_monitor.py         sweeps: cooldown, payment, SLA    *)
(*                                                                         *)
(* The database is the state.  A handler that runs in one request without  *)
(* another request in between is one action (specification Spec).  The     *)
(* cleaner endpoints are also modelled as SQLAlchemy sessions that load,   *)
(* commit in the middle (wallet cashback) and commit at the end, so that   *)
(* two requests interleave (specification ConcSpec).                       *)
(*                                                                         *)
(* Wall-clock time is abstracted to the classes the code compares against: *)
(* a timestamp is NULL or SET, paused_at is RECENT or OVER_LIMIT (30 min), *)
(* created_at is RECENT or OVER_LIMIT (15 min), cooldown_expires_at is     *)
(* FUTURE or PAST, scheduled_date - now is FAR or NEAR (30 min deadline).  *)
(***************************************************************************)
EXTENDS Integers, Sequences, FiniteSets, TLC

(***************************************************************************)
(* Bounds of the model                                                     *)
(***************************************************************************)
MaxVersion == 5
MaxHist == 5
MaxDirect == 3
MaxWallet == 2

(***************************************************************************)
(* Values                                                                  *)
(***************************************************************************)
NULL == "null"
SET == "set"
RECENT == "recent"
OVER_LIMIT == "over_limit"
FUTURE == "future"
PAST == "past"
FAR == "far"
NEAR == "near"

\* Optional[int] = None for expected_version
NoVersion == 0

\* models/booking.py BookingStatus
PENDING == "pending"
PENDING_ASSIGNMENT == "pending_assignment"
CONFIRMED == "confirmed"
ASSIGNED == "assigned"
IN_PROGRESS == "in_progress"
PAUSED == "paused"
COMPLETED == "completed"
CANCELLED == "cancelled"
FAILED == "failed"
REFUNDED == "refunded"
NO_SHOW == "no_show"

BookingStatus ==
    {PENDING, PENDING_ASSIGNMENT, CONFIRMED, ASSIGNED, IN_PROGRESS, PAUSED,
     COMPLETED, CANCELLED, FAILED, REFUNDED, NO_SHOW}

\* models/booking.py PaymentStatus (the members the modelled handlers write)
PAY_PENDING == "pay_pending"
PAY_PAID == "pay_paid"
PAY_REFUNDED == "pay_refunded"
PAY_PARTIALLY_REFUNDED == "pay_partially_refunded"

\* models/cleaner.py CleanerStatus
AVAILABLE == "available"
BUSY == "busy"
COOLING_DOWN == "cooling_down"
OFFLINE == "offline"

\* models/employee.py EmployeeAccountStatus
ACTIVE == "active"
SUSPENDED == "suspended"

\* users: one customer, one cleaner (a user with a CleanerProfile), one admin
Customer == "c1"
Admin == "adm"
Cleaners == {"w1"}
\* a second user with the cleaner role, who is never assigned to a booking
Outsider == "w2"
Users == {Customer, Admin, Outsider} \cup Cleaners

\* employees (the newer worker model the allocation engine reads)
Employees == {"e1"}

\* booking ids requested by callers; a booking exists once it is created
JobIds == {1}

\* totals in cents: a subscription visit without add-ons, and scenario S1
Prices == {0, 21000}

Role(u) ==
    IF u = Admin THEN "admin"
    ELSE IF u \in Cleaners \cup {Outsider} THEN "cleaner" ELSE "customer"

(***************************************************************************)
(* State                                                                   *)
(***************************************************************************)
VARIABLES
    job,        \* bookings table: JobIds -> row, or NoJob
    payment,    \* payments table: JobIds -> Payment.status, or NULL
    history,    \* booking_status_history rows per booking
    audit,      \* audit_logs rows per booking
    profile,    \* cleaner_profiles table
    emp,        \* employees table
    wallet,     \* wallet_transactions of the customer (cashback rows per booking)
    events,     \* job events handed to event_publisher.publish, per booking
    sess,       \* in-flight cleaner-action requests (SQLAlchemy sessions)
    last,       \* observer: the last state-machine call and what it raised
    user_status, \* users table: User.status of the cleaner users
    wk,         \* allocation: employees table with region, rating, queue position
    bk,         \* allocation: bookings with region, window and assigned employee
    weights,    \* allocation: AllocationConfig scoring weights, in percent
    run,        \* allocation: allocate_cleaner calls, in flight or returned
    clock,      \* per booking: which start deadlines now has passed
    quote,      \* pricing: the inputs and the price breakdown of create_booking
    bus,        \* events: publish tasks not yet run, and what the subscriber got
    seq,        \* employee_id_sequences rows and the generate calls in flight
    tries,      \* allocate_cleaner: the loop over the candidates of one call
    metrics,    \* the cached allocation metrics and the calls recording them
    loops       \* BackgroundTaskRunner: the flag and its four tasks

\* the tables of the services beside bookings and allocation
side == <<seq, tries, metrics, loops>>

\* the tables read and written outside the booking lifecycle
\* the tables the booking lifecycle leaves alone
alloc == <<user_status, wk, bk, weights, run, quote, bus, side>>

ext == <<user_status, wk, bk, weights, run, clock, quote, bus, side>>

vars == <<job, payment, history, audit, profile, emp, wallet, events, sess, last,
          user_status, wk, bk, weights, run, clock, quote, bus, seq, tries,
          metrics, loops>>

NoJob == [status |-> NULL]

Exists(j) == job[j].status # NULL

\* what a caller of transition observes: the status and version the booking
\* had, the target and expected_version passed, whether the guards of
\* _validate_transition were satisfied, and "ok" or the exception raised
NoCall == [op |-> NULL, job |-> 0, from |-> NULL, version |-> 0, to |-> NULL,
           actor |-> NULL, ev |-> NoVersion, guard |-> NULL, result |-> NULL]

\* a request slot: the arguments of the call, the rows the session loaded
\* (snap, psnap), the version that job.version += 1 reads, and what the
\* endpoint answered (result, and ret: the status and version it returned)
Idle == [pc |-> "idle", op |-> NULL, job |-> 0, to |-> NULL, actor |-> NULL,
         ev |-> NoVersion, key |-> NULL, snap |-> [status |-> NULL],
         psnap |-> [status |-> NULL], version |-> 0, mid |-> FALSE,
         result |-> NULL, ret |-> [status |-> NULL, version |-> 0]]


(***************************************************************************)
(* JobStateMachine: pure parts                                             *)
(***************************************************************************)
\* JobStateMachine.VALID_TRANSITIONS
VALID_TRANSITIONS(current_status) ==
    CASE current_status = PENDING            -> {PENDING_ASSIGNMENT, CANCELLED}
      [] current_status = PENDING_ASSIGNMENT -> {ASSIGNED, CANCELLED}
      [] current_status = CONFIRMED          -> {ASSIGNED, CANCELLED}
      [] current_status = ASSIGNED           -> {IN_PROGRESS, CANCELLED}
      [] current_status = IN_PROGRESS        -> {PAUSED, COMPLETED, FAILED, CANCELLED}
      [] current_status = PAUSED             -> {IN_PROGRESS, CANCELLED}
      [] current_status = COMPLETED          -> {}
      [] current_status = CANCELLED          -> {REFUNDED}
      [] current_status = FAILED             -> {PENDING_ASSIGNMENT}
      [] current_status = REFUNDED           -> {}
      [] current_status = NO_SHOW            -> {}
      [] OTHER                               -> {}

\* a table that also lets a job move to the status it already has
can_transition_reflexive(current_status, new_status) ==
    new_status \in VALID_TRANSITIONS(current_status) \cup {current_status}

\* JobStateMachine.can_transition
can_transition(current_status, new_status) ==
    new_status \in VALID_TRANSITIONS(current_status)

\* the validations without the check that a cleaner starts only a job of
\* their own
validate_transition_anyone(jr, new_status, actor) ==
    IF jr.status = PAUSED /\ new_status = IN_PROGRESS /\ jr.paused_at = OVER_LIMIT
    THEN "BadRequest"
    ELSE "ok"

\* JobStateMachine._validate_transition: "ok", or the exception raised
validate_transition(jr, new_status, actor) ==
    IF new_status = IN_PROGRESS /\ Role(actor) = "cleaner" /\ jr.cleaner_id # actor
    THEN "Forbidden"
    ELSE IF jr.status = PAUSED /\ new_status = IN_PROGRESS /\ jr.paused_at = OVER_LIMIT
    THEN "BadRequest"
    ELSE "ok"

\* the same checks without the optimistic-locking check
transition_checks_unlocked(jr, new_status, actor, expected_version) ==
    IF jr.status = NULL THEN "NotFound"
    ELSE IF ~can_transition(jr.status, new_status) THEN "InvalidTransition"
    ELSE validate_transition(jr, new_status, actor)

\* JobStateMachine.transition, lines 135-153: the checks before anything is
\* written, in the order the code makes them
transition_checks(jr, new_status, actor, expected_version) ==
    IF jr.status = NULL THEN "NotFound"
    ELSE IF ~can_transition(jr.status, new_status) THEN "InvalidTransition"
    ELSE IF expected_version # NoVersion /\ jr.version # expected_version
    THEN "ConcurrentModification"
    ELSE validate_transition(jr, new_status, actor)

\* JobStateMachine._execute_transition_actions: the columns of the booking
\* row that the transition writes, written onto row cur (resumed_at,
\* failed_at, cancelled_by_id and the reason columns, which no handler
\* reads, are not modelled)
job_actions(cur, old_status, new_status, actor) ==
    CASE new_status = ASSIGNED ->
            [cur EXCEPT !.assigned_at = SET, !.sla_deadline = SET]
      [] new_status = IN_PROGRESS /\ old_status = ASSIGNED ->
            [cur EXCEPT !.actual_start_time = SET]
      [] new_status = IN_PROGRESS /\ old_status = PAUSED -> cur
      [] new_status = PAUSED ->
            [cur EXCEPT !.paused_at = RECENT]
      [] new_status = COMPLETED ->
            [cur EXCEPT !.actual_end_time = SET]
      [] new_status = FAILED -> cur
      [] new_status = CANCELLED ->
            [cur EXCEPT !.cancelled_at = SET]
      [] OTHER -> cur

\* JobStateMachine._update_cleaner_status on profile row p
update_cleaner_status(p, status, cooldown_minutes) ==
    CASE status = COOLING_DOWN /\ cooldown_minutes > 0 ->
            [p EXCEPT !.status = status, !.cooldown_expires_at = FUTURE]
      [] status = AVAILABLE ->
            [p EXCEPT !.status = status, !.cooldown_expires_at = NULL,
                      !.active_job_count = 0]
      [] status = BUSY ->
            [p EXCEPT !.status = status, !.active_job_count = 1]
      [] OTHER -> [p EXCEPT !.status = status]

\* JobStateMachine.COOLDOWN_DURATION_MINUTES
COOLDOWN_DURATION_MINUTES == 15

\* JobStateMachine._increment_cleaner_stats: the counter read from the loaded
\* row (loaded), written onto row p
increment_cleaner_stats(p, loaded, completed) ==
    IF completed
    THEN [p EXCEPT !.total_jobs_completed = loaded.total_jobs_completed + 1]
    ELSE [p EXCEPT !.total_jobs_failed = loaded.total_jobs_failed + 1]

\* the profile row after the transition's side effects: row p is the row in
\* the database, loaded is the row the session read
profile_actions(p, loaded, old_status, new_status) ==
    CASE new_status = ASSIGNED ->
            update_cleaner_status(p, BUSY, 0)
      [] new_status = COMPLETED ->
            increment_cleaner_stats(
                update_cleaner_status(p, COOLING_DOWN, COOLDOWN_DURATION_MINUTES),
                loaded, TRUE)
      [] new_status = FAILED ->
            increment_cleaner_stats(update_cleaner_status(p, AVAILABLE, 0), loaded, FALSE)
      [] new_status = CANCELLED /\ old_status \in {ASSIGNED, IN_PROGRESS, PAUSED} ->
            update_cleaner_status(p, AVAILABLE, 0)
      [] OTHER -> p

\* does the transition touch the cleaner's profile at all
touches_profile(old_status, new_status) ==
    \/ new_status \in {ASSIGNED, COMPLETED, FAILED}
    \/ new_status = CANCELLED /\ old_status \in {ASSIGNED, IN_PROGRESS, PAUSED}

\* Decimal.quantize(Decimal("0.01")) of cents*5/100: round half to even
cashback_amount(total_price) ==
    LET n == total_price * 5
        q == n \div 100
        r == n % 100
    IN  IF r > 50 \/ (r = 50 /\ q % 2 = 1) THEN q + 1 ELSE q

\* JobStateMachine._process_completion_rewards commits the session when it
\* credits cashback (wallet.create_transaction, db.commit())
rewards_commit(jr) ==
    jr.total_price > 0 /\ cashback_amount(jr.total_price) > 0

\* JobStateMachine._get_default_reason
get_default_reason(old_status, new_status) ==
    CASE old_status = PENDING /\ new_status = PENDING_ASSIGNMENT -> "Payment completed"
      [] old_status = PENDING_ASSIGNMENT /\ new_status = ASSIGNED -> "Cleaner assigned"
      [] old_status = ASSIGNED /\ new_status = IN_PROGRESS -> "Job started by cleaner"
      [] old_status = IN_PROGRESS /\ new_status = PAUSED -> "Job paused by cleaner"
      [] old_status = PAUSED /\ new_status = IN_PROGRESS -> "Job resumed by cleaner"
      [] old_status = IN_PROGRESS /\ new_status = COMPLETED -> "Job completed by cleaner"
      [] OTHER -> "Status changed"

\* BookingStatusHistory row; by_system is changed_by_id IS NULL (which user
\* a non-null changed_by_id names is not modelled)
history_row(previous_status, new_status, changed_by_id, reason) ==
    [previous_status |-> previous_status, new_status |-> new_status,
     by_system |-> (changed_by_id = NULL), reason |-> reason]

\* JobStateMachine._create_audit_log row (user_id is not modelled)
audit_row(previous_status, previous_version, new_status, new_version, actor, key) ==
    [action |-> new_status,
     previous_state |-> [status |-> previous_status, version |-> previous_version],
     new_state |-> [status |-> new_status, version |-> new_version],
     extra_data |-> key]

\* JobStateMachine._publish_transition_event: event_type_map
event_type(old_status, new_status) ==
    CASE new_status = ASSIGNED -> "JOB_ASSIGNED"
      [] new_status = IN_PROGRESS ->
            IF old_status = ASSIGNED THEN "JOB_STARTED" ELSE "JOB_RESUMED"
      [] new_status = PAUSED -> "JOB_PAUSED"
      [] new_status = COMPLETED -> "JOB_COMPLETED"
      [] new_status = CANCELLED -> "JOB_CANCELLED"
      [] new_status = FAILED -> "JOB_FAILED"
      [] OTHER -> NULL

publish(evs, j, type) ==
    IF type = NULL THEN evs ELSE [evs EXCEPT ![j] = Append(@, type)]


(***************************************************************************)
(* Rows and the initial state                                              *)
(***************************************************************************)
Sessions == {1, 2}

\* bookings.create_booking: Booking(...), version default 1
new_booking(price, payment_status) ==
    [status |-> PENDING, version |-> 1, customer_id |-> Customer,
     cleaner_id |-> NULL, assigned_employee_id |-> NULL,
     payment_status |-> payment_status, total_price |-> price,
     created_at |-> RECENT,
     assigned_at |-> NULL, sla_deadline |-> NULL, actual_start_time |-> NULL,
     paused_at |-> NULL, actual_end_time |-> NULL, cancelled_at |-> NULL]

\* models/cleaner.py CleanerProfile defaults
new_profile ==
    [status |-> OFFLINE, active_job_count |-> 0, cooldown_expires_at |-> NULL,
     total_jobs_completed |-> 0, total_jobs_failed |-> 0]

\* models/employee.py Employee as employee_admin creates it
new_employee == [account_status |-> ACTIVE, cleaner_status |-> OFFLINE]

(***************************************************************************)
(* Allocation data (services/allocation_engine.py)                         *)
(***************************************************************************)
\* employees and bookings the allocation engine is run on
AWorkers == {"a", "b"}
AJobs == {1, 2}
ASessions == {1, 2}

\* region codes the bookings and employees are taken from
ARegions == {"DXB", "SHJ", "AUH"}

\* scheduled_date and service.base_duration_hours, in half hours
Starts == {0, 3, 6}
Durations == {2, 5, 8}

\* Employee.rating in tenths
Ratings == {30, 50}

\* AllocationConfig: queue_weight, distance_weight, rating_weight in percent;
\* the defaults, and a configuration that favours the rating
DefaultWeights == [queue |-> 40, distance |-> 30, rating |-> 30]
RatingWeights == [queue |-> 10, distance |-> 30, rating |-> 60]

\* an allocate_cleaner call that has not started
NoRun == [pc |-> "idle", job |-> 0, cands |-> <<>>, pick |-> NULL,
          region_expanded |-> FALSE, fallback_used |-> FALSE,
          success |-> FALSE, worker |-> NULL, weights |-> DefaultWeights]

\* now against the two start deadlines of a booking: scheduled_due is
\* scheduled_date + 10 min < now, sla_due is sla_deadline < now,
\* started_late is actual_start_time > sla_deadline; first names the
\* deadline that passes first ("both" while sla_deadline is
\* scheduled_date + 10 min)
NoClock == [scheduled_due |-> FALSE, sla_due |-> FALSE, started_late |-> FALSE,
            first |-> "both"]

\* no price calculated yet
NoQuote == [subtotal |-> 0, demand_multiplier |-> 100, rush_premium |-> 100,
            discount_amount |-> 0, tax_amount |-> 0, total_price |-> 0,
            priced |-> FALSE]

\* the create_employee requests, each in its own database session
Callers == {1, 2, 3}

\* the rows employee_id_sequences can hold for one (region_code, year_month):
\* the table has no unique constraint on the pair
SeqRows == {1, 2, 3}

\* generate calls made in all
MaxCalls == 4

NoRow == [sequence |-> 0, state |-> "free", lock |-> 0]

NoTx == [pc |-> "idle", row |-> 0, ret |-> 0]

\* rows: the sequence rows, with the session holding the row lock;
\* tx: the sessions; ids: employees.employee_id values committed;
\* log: the sequence numbers the generate calls returned
SeqInit ==
    seq = [rows |-> [r \in SeqRows |-> NoRow], tx |-> [p \in Callers |-> NoTx],
           ids |-> {}, log |-> <<>>]

\* AllocationConfig.assignment_timeout_seconds
ASSIGNMENT_TIMEOUT_SECONDS == 3

\* candidates one allocate_cleaner call can find, more than it may try
MaxCands == 6

\* total_score of the candidates, in the order the query returns them
CandScore == [c \in 1..MaxCands |-> ((c * 3) % 7) * 10]

\* what _attempt_assignment does with a candidate: it commits and returns
\* the cleaner, it finds a conflict and returns None, or it raises, rolls
\* back and returns None
AttemptOutcomes == {"assigned", "refused", "raised"}

\* seconds the queries and the commit of one _attempt_assignment take
AttemptSeconds == {1, 5}

NoResult == [success |-> FALSE, assigned_employee |-> 0,
             candidates_evaluated |-> 0, failure_reason |-> NULL]

\* cands: the sorted candidates; tried: the attempts made, in order
TryInit ==
    tries = [pc |-> "idle", cands |-> <<>>, tried |-> <<>>, result |-> NoResult]

\* allocate_cleaner calls that end on one day for bookings of one region
MetricCalls == {1, 2, 3}

\* the JSON under allocation:metrics:<region>:<date>, or no key yet
NoMetrics == [present |-> FALSE, total_allocations |-> 0, successful |-> 0,
              failed |-> 0]

\* cache: the key; call: each call's place in _record_metric and the
\* metrics it holds; finished: the calls that have returned
MetricInit ==
    metrics = [cache |-> NoMetrics,
               call |-> [s \in MetricCalls |-> [pc |-> "idle", result |-> NULL,
                                                local |-> NoMetrics]],
               finished |-> 0]

\* the four tasks BackgroundTaskRunner.start creates
Loops == {"sla_monitor", "cooldown_releaser", "payment_timeout_checker",
          "offline_cleaner_checker"}

\* the loops whose sweep awaits event_publisher.publish; the sweep of the
\* cooldown releaser has no await in it
Awaiting == Loops \ {"cooldown_releaser"}

\* sweeps the four loops make in all
MaxSweeps == 3

\* pc: "none" before start, "new" created and not yet run, "sweep" inside
\* a sweep at an await, "sleep" in asyncio.sleep, "ended"; log: how the
\* sweeps ended; cancel: task.cancel() was called and not yet delivered
NoTask == [pc |-> "none", log |-> <<>>, cancel |-> FALSE]

\* running: self._running; stopped: stop() was called; at_stop: where each
\* task was then
LoopInit ==
    loops = [running |-> FALSE, stopped |-> FALSE,
             at_stop |-> [l \in Loops |-> "none"],
             task |-> [l \in Loops |-> NoTask]]

SideInit == SeqInit /\ TryInit /\ MetricInit /\ LoopInit

\* the core tables before any request
CoreInit ==
    /\ job = [j \in JobIds |-> NoJob]
    /\ payment = [j \in JobIds |-> NULL]
    /\ history = [j \in JobIds |-> <<>>]
    /\ audit = [j \in JobIds |-> <<>>]
    /\ profile = [c \in Cleaners |-> new_profile]
    /\ emp = [e \in Employees |-> new_employee]
    /\ wallet = <<>>
    /\ events = [j \in JobIds |-> <<>>]
    /\ sess = [s \in Sessions |-> Idle]
    /\ last = NoCall
    /\ user_status = [c \in Cleaners |-> ACTIVE]
    /\ clock = [j \in JobIds |-> NoClock]
    /\ quote = NoQuote
    /\ bus = [j \in JobIds |-> [ready |-> <<>>, seen |-> <<>>]]
    /\ SideInit

Init ==
    /\ CoreInit
    /\ wk = [w \in AWorkers |-> [region |-> "DXB", account_status |-> ACTIVE,
                                  rating |-> 50,
                                  queue_position |-> IF w = "a" THEN 1 ELSE 2]]
    /\ bk = [j \in AJobs |-> NoJob]
    /\ weights = DefaultWeights
    /\ run = [s \in ASessions |-> NoRun]

\* room left under the bounds for one more status change of booking j
Room(j) == job[j].version < MaxVersion /\ Len(history[j]) < MaxHist

(***************************************************************************)
(* JobStateMachine.transition as one step (no other request in between)    *)
(***************************************************************************)
\* the database after a successful transition of booking j, seen by the
\* session as row jr (jr differs from job[j] when the caller has already
\* modified the row, as assign_cleaner does)
Commit(j, jr, new_status, actor, reason, key) ==
    LET old == jr.status
        c == jr.cleaner_id
        row == [job_actions(jr, old, new_status, actor) EXCEPT
                   !.status = new_status, !.version = jr.version + 1]
    IN  /\ job' = [job EXCEPT ![j] = row]
        /\ profile' = IF c \in DOMAIN profile /\ touches_profile(old, new_status)
                      THEN [profile EXCEPT ![c] =
                                profile_actions(profile[c], profile[c], old, new_status)]
                      ELSE profile
        /\ wallet' = IF new_status = COMPLETED /\ rewards_commit(jr)
                     THEN Append(wallet, [type |-> "cashback",
                                          amount |-> cashback_amount(jr.total_price),
                                          reference_id |-> j])
                     ELSE wallet
        /\ history' = [history EXCEPT ![j] = Append(@,
                          history_row(old, new_status, actor,
                              IF reason = NULL THEN get_default_reason(old, new_status)
                              ELSE reason))]
        /\ audit' = [audit EXCEPT ![j] = Append(@,
                          audit_row(old, jr.version, new_status, jr.version + 1, actor, key))]
        /\ events' = publish(events, j, event_type(old, new_status))

\* JobStateMachine.transition(job_id, new_status, actor, expected_version)
Transition(j, new_status, actor, expected_version) ==
    LET r == transition_checks(job[j], new_status, actor, expected_version)
    IN  /\ \A s \in Sessions : sess[s].pc = "idle"
        /\ IF r = "ok"
           THEN /\ Room(j)
                /\ Commit(j, job[j], new_status, actor, NULL, NULL)
                /\ UNCHANGED <<payment, emp, sess>>
           ELSE UNCHANGED <<job, payment, history, audit, profile, emp, wallet,
                            events, sess>>

\* JobStateMachine.assign_cleaner(job_id, cleaner_id, admin)
AssignCleaner(j, cleaner_id) ==
    LET jr == IF Exists(j) THEN [job[j] EXCEPT !.cleaner_id = cleaner_id] ELSE job[j]
        r == IF ~Exists(j) THEN "NotFound"
             ELSE IF cleaner_id \in DOMAIN profile
                     /\ profile[cleaner_id].status # AVAILABLE THEN "BadRequest"
             ELSE transition_checks(jr, ASSIGNED, Admin, NoVersion)
    IN  /\ \A s \in Sessions : sess[s].pc = "idle"
        /\ IF r = "ok"
           THEN /\ Room(j)
                /\ Commit(j, jr, ASSIGNED, Admin, "Cleaner assigned by admin", NULL)
                /\ UNCHANGED <<payment, emp, sess>>
           ELSE UNCHANGED <<job, payment, history, audit, profile, emp, wallet,
                            events, sess>>


(***************************************************************************)
(* Cleaner endpoints (api/cleaner_actions.py)                              *)
(***************************************************************************)
EndpointOps == {"start", "pause", "resume", "complete", "fail"}

\* the status each endpoint asks the state machine for
Target(op) ==
    CASE op = "start" -> IN_PROGRESS
      [] op = "pause" -> PAUSED
      [] op = "resume" -> IN_PROGRESS
      [] op = "complete" -> COMPLETED
      [] op = "fail" -> FAILED

\* reason passed by start_job / pause_job / resume_job / complete_job / fail_job
Reason(op) ==
    CASE op = "start" -> "Job started by cleaner"
      [] op = "pause" -> "Job paused by cleaner"
      [] op = "resume" -> "Job resumed by cleaner"
      [] op = "complete" -> "Job completed by cleaner"
      [] op = "fail" -> "reported by cleaner"

\* only start and complete pass expected_version and the idempotency key on
PassesVersion(op) == op \in {"start", "complete"}

\* cleaner_actions.validate_cleaner_role
validate_cleaner_role(user) == Role(user) \in {"cleaner", "admin"}

\* the checks of an endpoint and of the transition it calls, on the row jr
\* the session loaded: "ok", "already" (the early return when the job has
\* the target status), or the exception raised
endpoint_checks(jr, op, user, expected_version) ==
    IF ~validate_cleaner_role(user) THEN "Forbidden"
    ELSE IF jr.status = NULL THEN "NotFound"
    ELSE IF jr.cleaner_id # user /\ Role(user) # "admin" THEN "Forbidden"
    ELSE IF jr.status = Target(op) THEN "already"
    ELSE transition_checks(jr, Target(op), user,
                           IF PassesVersion(op) THEN expected_version ELSE NoVersion)

\* format_job_response: what the caller sees of the job
Response(jr) == [status |-> jr.status, version |-> jr.version]

\* an endpoint as one step
Endpoint(op, j, user, expected_version, key) ==
    LET r == endpoint_checks(job[j], op, user, expected_version)
    IN  /\ \A s \in Sessions : sess[s].pc = "idle"
        /\ IF r = "ok"
           THEN /\ Room(j)
                /\ Commit(j, job[j], Target(op), user, Reason(op),
                          IF PassesVersion(op) THEN key ELSE NULL)
                /\ UNCHANGED <<payment, emp, sess>>
           ELSE UNCHANGED <<job, payment, history, audit, profile, emp, wallet,
                            events, sess>>

(***************************************************************************)
(* The same endpoints as interleaving sessions                             *)
(***************************************************************************)
\* the slot of a request that has answered: what was asked and the answer
Done(op, j, expected_version, key, result, ret) ==
    [Idle EXCEPT !.op = op, !.job = j, !.ev = expected_version, !.key = key,
                 !.result = result, !.ret = ret]

\* the slots a request starts from: slot 1 opens a new round of requests
\* once every earlier request has answered, and forgets their answers; slot
\* s > 1 joins the round while slot s - 1 is taken (the sessions are
\* interchangeable, so which slot a request gets does not matter)
Slots(s) ==
    IF s = 1 THEN [t \in Sessions |-> Idle] ELSE sess

CanBegin(s) ==
    IF s = 1 THEN \A t \in Sessions : sess[t].pc = "idle"
    ELSE sess[s] = Idle /\ sess[s - 1] # Idle

\* the request loads the booking, checks, and stages the side effects in the
\* session; nothing is written to the database yet (a request that raises
\* in the checks writes nothing and leaves the slots as they were)
Begin(s, op, j, user, expected_version, key) ==
    LET jr == job[j]
        r == endpoint_checks(jr, op, user, expected_version)
        c == jr.cleaner_id
    IN  /\ CanBegin(s)
        /\ IF r = "ok"
           THEN /\ Room(j)
                /\ Len(wallet) < MaxWallet
                /\ sess' = [Slots(s) EXCEPT ![s] =
                     [pc |-> IF Target(op) = COMPLETED /\ rewards_commit(jr)
                             THEN "rewards" ELSE "commit",
                      op |-> op, job |-> j, to |-> Target(op), actor |-> user,
                      ev |-> IF PassesVersion(op) THEN expected_version
                             ELSE NoVersion,
                      key |-> IF PassesVersion(op) THEN key ELSE NULL,
                      snap |-> jr,
                      psnap |-> IF c \in DOMAIN profile THEN profile[c]
                                ELSE [status |-> NULL],
                      version |-> jr.version, mid |-> FALSE,
                      result |-> NULL, ret |-> Idle.ret]]
           ELSE IF r = "already"
           THEN sess' = [Slots(s) EXCEPT ![s] = Done(op, j,
                             IF PassesVersion(op) THEN expected_version ELSE NoVersion,
                             IF PassesVersion(op) THEN key ELSE NULL,
                             "already", Response(jr))]
           ELSE UNCHANGED sess
        /\ UNCHANGED <<job, payment, history, audit, profile, emp, wallet, events>>

\* the columns the staged side effects write, written over the rows now in
\* the database (an UPDATE sets only the columns the session changed)
StagedJob(s) ==
    LET q == sess[s]
    IN  job_actions(job[q.job], q.snap.status, q.to, q.actor)

StagedProfile(s) ==
    LET q == sess[s]
        c == q.snap.cleaner_id
    IN  IF c \in DOMAIN profile /\ touches_profile(q.snap.status, q.to)
        THEN [profile EXCEPT ![c] =
                 profile_actions(profile[c], q.psnap, q.snap.status, q.to)]
        ELSE profile

\* wallet.create_transaction inside _process_completion_rewards: db.commit()
\* writes everything staged so far and expires the session's rows, so the
\* job.version += 1 that follows reads the version again
RewardsCommit(s) ==
    LET q == sess[s]
    IN  /\ q.pc = "rewards"
        /\ job' = [job EXCEPT ![q.job] = StagedJob(s)]
        /\ profile' = StagedProfile(s)
        /\ wallet' = Append(wallet, [type |-> "cashback",
                                     amount |-> cashback_amount(q.snap.total_price),
                                     reference_id |-> q.job])
        /\ sess' = [sess EXCEPT ![s].pc = "commit", ![s].mid = TRUE,
                                ![s].version = job[q.job].version]
        /\ UNCHANGED <<payment, history, audit, emp, events>>

\* transition lines 164-201: status, version, history row, audit row,
\* db.commit(), db.refresh(job), event
FinalCommit(s) ==
    LET q == sess[s]
        j == q.job
        base == IF q.mid THEN job[j] ELSE StagedJob(s)
        row == [base EXCEPT !.status = q.to, !.version = q.version + 1]
    IN  /\ q.pc = "commit"
        /\ job' = [job EXCEPT ![j] = row]
        /\ profile' = IF q.mid THEN profile ELSE StagedProfile(s)
        /\ history' = [history EXCEPT ![j] = Append(@,
                          history_row(q.snap.status, q.to, q.actor, Reason(q.op)))]
        /\ audit' = [audit EXCEPT ![j] = Append(@,
                          audit_row(q.snap.status, q.snap.version, q.to,
                                    q.version + 1, q.actor, q.key))]
        /\ events' = publish(events, j, event_type(q.snap.status, q.to))
        /\ sess' = [sess EXCEPT ![s] = Done(q.op, j, q.ev, q.key, "ok", Response(row))]
        /\ UNCHANGED <<payment, emp, wallet>>

\* an error while the side effects run or at db.commit() (the database
\* connection drops): the exception leaves transition, the request ends and
\* the session is closed without another commit
Fault(s) ==
    LET q == sess[s]
    IN  /\ q.pc \in {"rewards", "commit"}
        /\ sess' = [sess EXCEPT ![s] = Done(q.op, q.job, q.ev, q.key, "Error", Idle.ret)]
        /\ UNCHANGED <<job, payment, history, audit, profile, emp, wallet, events>>


(***************************************************************************)
(* Bookings API (api/bookings.py)                                          *)
(***************************************************************************)
\* cleaner_assignment.has_time_conflict: every booking of the model is for
\* the same time slot, so any other live booking of the employee overlaps
has_time_conflict(e, exclude_booking_id) ==
    \E k \in JobIds \ {exclude_booking_id} :
        /\ Exists(k)
        /\ job[k].assigned_employee_id = e
        /\ job[k].status \notin {CANCELLED, NO_SHOW}

\* AllocationEngine._get_scored_candidates / _get_all_available_candidates
Candidates(j) ==
    {e \in Employees : emp[e].account_status = ACTIVE /\ ~has_time_conflict(e, j)}

\* AllocationEngine._attempt_assignment: the columns it commits
attempt_assignment(jr, e) ==
    [jr EXCEPT !.assigned_employee_id = e, !.assigned_at = SET, !.sla_deadline = SET]

\* POST /bookings: a card booking (payment pending) or a subscription visit
\* without add-ons (total 0, paid); then enhanced_auto_assign
CreateBooking(j, price) ==
    LET row == new_booking(price, IF price = 0 THEN PAY_PAID ELSE PAY_PENDING)
    IN  /\ ~Exists(j)
        /\ \A s \in Sessions : sess[s].pc = "idle"
        /\ history' = [history EXCEPT ![j] =
                          <<history_row(NULL, PENDING, Customer, "Booking created")>>]
        /\ IF Candidates(j) = {}
           THEN /\ job' = [job EXCEPT ![j] = row]
                /\ events' = [events EXCEPT ![j] = <<"JOB_CREATED">>]
           ELSE \E e \in Candidates(j) :
                /\ job' = [job EXCEPT ![j] = attempt_assignment(row, e)]
                /\ events' = [events EXCEPT ![j] = <<"JOB_CREATED", "JOB_ASSIGNED">>]
        /\ UNCHANGED <<payment, audit, profile, emp, wallet, sess>>

\* PUT /bookings/{id}/cancel by the customer or an admin; remaining is the
\* class of scheduled_date - now at the time of the request
CancelBooking(j, user, remaining) ==
    /\ Exists(j)
    /\ \A s \in Sessions : sess[s].pc = "idle"
    /\ job[j].customer_id = user \/ Role(user) = "admin"
    /\ job[j].status \notin {COMPLETED, CANCELLED, REFUNDED}
    /\ remaining = FAR
    /\ Len(history[j]) < MaxDirect
    /\ job' = [job EXCEPT ![j].status = CANCELLED, ![j].cancelled_at = SET]
    /\ history' = [history EXCEPT ![j] = Append(@,
                      history_row(job[j].status, CANCELLED, user, "Customer cancelled"))]
    /\ events' = publish(events, j, "JOB_CANCELLED")
    /\ UNCHANGED <<payment, audit, profile, emp, wallet, sess>>

\* update_booking_status: status_event_map
status_event(status) ==
    CASE status = IN_PROGRESS -> "JOB_STARTED"
      [] status = COMPLETED -> "JOB_COMPLETED"
      [] status = CANCELLED -> "JOB_CANCELLED"
      [] status = ASSIGNED -> "JOB_ASSIGNED"
      [] OTHER -> NULL

\* PUT /bookings/admin/{id}/status
UpdateBookingStatus(j, status) ==
    /\ Exists(j)
    /\ \A s \in Sessions : sess[s].pc = "idle"
    /\ Len(history[j]) < MaxDirect
    /\ job' = [job EXCEPT ![j] =
                 [(CASE status = IN_PROGRESS -> [@ EXCEPT !.actual_start_time = SET]
                     [] status = COMPLETED -> [@ EXCEPT !.actual_end_time = SET]
                     [] OTHER -> @)
                  EXCEPT !.status = status]]
    /\ history' = [history EXCEPT ![j] = Append(@,
                      history_row(job[j].status, status, Admin, "admin update"))]
    /\ events' = publish(events, j, status_event(status))
    /\ UNCHANGED <<payment, audit, profile, emp, wallet, sess>>

(***************************************************************************)
(* Payments API (api/payments.py)                                          *)
(***************************************************************************)
\* POST /payments/checkout by the customer
CreateCheckout(j) ==
    /\ Exists(j)
    /\ \A s \in Sessions : sess[s].pc = "idle"
    /\ job[j].payment_status # PAY_PAID
    /\ payment' = [payment EXCEPT ![j] = PAY_PENDING]
    /\ UNCHANGED <<job, history, audit, profile, emp, wallet, events, sess>>

\* what verify_payment and stripe_webhook write once Stripe reports "paid"
mark_paid(jr) == [jr EXCEPT !.payment_status = PAY_PAID, !.status = CONFIRMED]

\* GET /payments/status/{session_id}, Stripe reporting the session as paid
VerifyPayment(j) ==
    /\ payment[j] \notin {NULL, PAY_PAID}
    /\ \A s \in Sessions : sess[s].pc = "idle"
    /\ payment' = [payment EXCEPT ![j] = PAY_PAID]
    /\ job' = [job EXCEPT ![j] = mark_paid(@)]
    /\ UNCHANGED <<history, audit, profile, emp, wallet, events, sess>>

\* POST /payments/webhook with a new event id and payment_status "paid"
StripeWebhook(j) ==
    /\ payment[j] \notin {NULL, PAY_PAID}
    /\ \A s \in Sessions : sess[s].pc = "idle"
    /\ payment' = [payment EXCEPT ![j] = PAY_PAID]
    /\ job' = [job EXCEPT ![j] = mark_paid(@)]
    /\ UNCHANGED <<history, audit, profile, emp, wallet, events, sess>>

\* POST /payments/refund by an admin, for the whole amount or a part of it
CreateRefund(j, whole) ==
    /\ payment[j] = PAY_PAID
    /\ \A s \in Sessions : sess[s].pc = "idle"
    /\ IF whole
       THEN /\ payment' = [payment EXCEPT ![j] = PAY_REFUNDED]
            /\ job' = [job EXCEPT ![j].status = REFUNDED,
                                  ![j].payment_status = PAY_REFUNDED]
       ELSE /\ payment' = [payment EXCEPT ![j] = PAY_PARTIALLY_REFUNDED]
            /\ UNCHANGED job
    /\ UNCHANGED <<history, audit, profile, emp, wallet, events, sess>>


(***************************************************************************)
(* Admin dashboard (api/admin_dashboard.py)                                *)
(***************************************************************************)
\* POST /admin/jobs/{id}/unassign
Unassign(j) ==
    LET c == job[j].cleaner_id
    IN  /\ Exists(j)
        /\ \A s \in Sessions : sess[s].pc = "idle"
        /\ job[j].status = ASSIGNED
        /\ job[j].version < MaxVersion
        /\ profile' = IF c \in DOMAIN profile
                      THEN [profile EXCEPT ![c].status = AVAILABLE,
                                           ![c].active_job_count = 0]
                      ELSE profile
        /\ job' = [job EXCEPT ![j].cleaner_id = NULL,
                              ![j].status = PENDING_ASSIGNMENT,
                              ![j].assigned_at = NULL,
                              ![j].version = @ + 1]
        /\ events' = publish(events, j, "JOB_ASSIGNED")
        /\ UNCHANGED <<payment, history, audit, emp, wallet, sess>>

\* POST /admin/jobs/{id}/assign, the checks of assign_cleaner_to_job in the
\* order the handler makes them
assign_checks(jr, e) ==
    IF jr.status = NULL THEN "NotFound"
    ELSE IF jr.status \notin {PENDING, PENDING_ASSIGNMENT, CONFIRMED} THEN "BadRequest"
    ELSE IF emp[e].account_status # ACTIVE THEN "NotFound"
    ELSE IF emp[e].cleaner_status = BUSY THEN "BadRequest"
    ELSE IF has_time_conflict(e, 0) THEN "BadRequest"
    ELSE "ok"

\* assign_cleaner_to_job.  The handler hands has_time_conflict the Employee
\* row where the id is expected: the query either compares by id or is
\* refused by the driver, and then the request fails with nothing written
AssignEmployee(j, e) ==
    /\ \A s \in Sessions : sess[s].pc = "idle"
    /\ \/ /\ assign_checks(job[j], e) = "ok"
          /\ Len(history[j]) < MaxHist
          /\ job' = [job EXCEPT ![j].assigned_employee_id = e,
                                ![j].status = ASSIGNED,
                                ![j].assigned_at = SET]
          /\ history' = [history EXCEPT ![j] = Append(@,
                            history_row(job[j].status, ASSIGNED, Admin,
                                        "Manually assigned by admin"))]
          /\ events' = publish(events, j, "JOB_ASSIGNED")
          /\ UNCHANGED <<payment, audit, profile, emp, wallet, sess>>
       \/ UNCHANGED <<job, payment, history, audit, profile, emp, wallet,
                      events, sess>>

\* PUT /users/{id}/status (api/users.py update_user_status)
UpdateUserStatus(c, status) ==
    /\ \A s \in Sessions : sess[s].pc = "idle"
    /\ user_status' = [user_status EXCEPT ![c] = status]
    /\ UNCHANGED <<job, payment, history, audit, profile, emp, wallet, events,
                   sess, last>>

\* PUT /admin/employees/{id} with account_status (api/employee_admin.py)
UpdateEmployee(e, account_status) ==
    /\ \A s \in Sessions : sess[s].pc = "idle"
    /\ emp' = [emp EXCEPT ![e] =
                 IF account_status # ACTIVE
                 THEN [account_status |-> account_status, cleaner_status |-> OFFLINE]
                 ELSE [@ EXCEPT !.account_status = account_status]]
    /\ UNCHANGED <<job, payment, history, audit, profile, wallet, events, sess>>

(***************************************************************************)
(* Cleaner availability (api/cleaner_actions.py)                           *)
(***************************************************************************)
\* POST /cleaner/me/go-online
GoOnline(c) ==
    /\ \A s \in Sessions : sess[s].pc = "idle"
    /\ profile' = [profile EXCEPT ![c].status = AVAILABLE]
    /\ UNCHANGED <<job, payment, history, audit, emp, wallet, events, sess>>

\* POST /cleaner/me/go-offline
GoOffline(c) ==
    /\ \A s \in Sessions : sess[s].pc = "idle"
    /\ ~\E j \in JobIds : /\ Exists(j)
                          /\ job[j].cleaner_id = c
                          /\ job[j].status \in {IN_PROGRESS, PAUSED}
    /\ profile' = [profile EXCEPT ![c].status = OFFLINE]
    /\ UNCHANGED <<job, payment, history, audit, emp, wallet, events, sess>>

(***************************************************************************)
(* Background sweeps (services/sla_monitor.py)                             *)
(***************************************************************************)
\* SLAMonitor.release_expired_cooldowns
ReleaseExpiredCooldowns ==
    LET expired == {c \in Cleaners : /\ profile[c].status = COOLING_DOWN
                                     /\ profile[c].cooldown_expires_at = PAST}
    IN  /\ expired # {}
        /\ \A s \in Sessions : sess[s].pc = "idle"
        /\ profile' = [c \in Cleaners |->
                         IF c \in expired
                         THEN [profile[c] EXCEPT !.status = AVAILABLE,
                                                 !.cooldown_expires_at = NULL,
                                                 !.active_job_count = 0]
                         ELSE profile[c]]
        /\ UNCHANGED <<job, payment, history, audit, emp, wallet, events, sess>>

\* SLAMonitor.cancel_unpaid_bookings
CancelUnpaidBookings ==
    LET stale == {j \in JobIds : /\ job[j].status = PENDING
                                 /\ job[j].payment_status = PAY_PENDING
                                 /\ job[j].created_at = OVER_LIMIT}
    IN  /\ stale # {}
        /\ \A s \in Sessions : sess[s].pc = "idle"
        /\ \A j \in stale : Len(history[j]) < MaxDirect
        /\ job' = [j \in JobIds |->
                     IF j \in stale
                     THEN [job[j] EXCEPT !.status = CANCELLED, !.cancelled_at = SET]
                     ELSE job[j]]
        /\ history' = [j \in JobIds |->
                         IF j \in stale
                         THEN Append(history[j],
                                  history_row(PENDING, CANCELLED, NULL,
                                      "Auto-cancelled: Payment not received within 15 minutes"))
                         ELSE history[j]]
        /\ UNCHANGED <<payment, audit, profile, emp, wallet, events, sess>>

(***************************************************************************)
(* The clock                                                               *)
(***************************************************************************)
\* 15 minutes pass since the booking was created (the age is read only
\* while the booking is PENDING)
PaymentWindowElapses(j) ==
    /\ Exists(j)
    /\ job[j].status = PENDING
    /\ job[j].created_at = RECENT
    /\ job' = [job EXCEPT ![j].created_at = OVER_LIMIT]
    /\ UNCHANGED <<payment, history, audit, profile, emp, wallet, events, sess>>

\* 30 minutes pass since the job was paused (read only while PAUSED)
PauseLimitElapses(j) ==
    /\ Exists(j)
    /\ job[j].status = PAUSED
    /\ job[j].paused_at = RECENT
    /\ job' = [job EXCEPT ![j].paused_at = OVER_LIMIT]
    /\ UNCHANGED <<payment, history, audit, profile, emp, wallet, events, sess>>

\* the cooldown of cleaner c runs out
CooldownExpires(c) ==
    /\ profile[c].status = COOLING_DOWN
    /\ profile[c].cooldown_expires_at = FUTURE
    /\ profile' = [profile EXCEPT ![c].cooldown_expires_at = PAST]
    /\ UNCHANGED <<job, payment, history, audit, emp, wallet, events, sess>>


(***************************************************************************)
(* Start deadline: reschedule and the SLA sweep                            *)
(***************************************************************************)
MaxAlerts == 2

\* the JOB_DELAYED events published for booking j
alerts(evs, j) ==
    LET delayed(e) == e = "JOB_DELAYED"
    IN  Len(SelectSeq(evs[j], delayed))

\* PUT /bookings/{id}/reschedule: scheduled_date becomes a date in the
\* future, sla_deadline stays; first says which of the two now comes first
RescheduleBooking(j, user, first) ==
    /\ Exists(j)
    /\ \A s \in Sessions : sess[s].pc = "idle"
    /\ job[j].customer_id = user \/ Role(user) = "admin"
    /\ job[j].status \in {PENDING, CONFIRMED, ASSIGNED}
    /\ Len(history[j]) < MaxDirect
    /\ IF job[j].sla_deadline = SET /\ ~clock[j].sla_due
       THEN first \in {"scheduled", "sla", "both"}
       ELSE first = "sla"
    /\ clock' = [clock EXCEPT ![j] = [@ EXCEPT !.scheduled_due = FALSE,
                                                !.first = first]]
    /\ history' = [history EXCEPT ![j] = Append(@,
                      history_row(job[j].status, job[j].status, user, "Rescheduled"))]
    /\ events' = publish(events, j, "JOB_ASSIGNED")
    /\ UNCHANGED <<job, payment, audit, profile, emp, wallet, sess>>

\* what a commit of the state machine does to the deadlines: entering
\* ASSIGNED sets sla_deadline = scheduled_date + 10 min, entering
\* IN_PROGRESS sets actual_start_time = now
deadline_writes ==
    clock' = [j \in JobIds |->
                IF ~Exists(j) THEN clock[j]
                ELSE IF job'[j].status = ASSIGNED /\ job[j].status # ASSIGNED
                THEN [clock[j] EXCEPT !.sla_due = clock[j].scheduled_due,
                                      !.first = "both"]
                ELSE IF job'[j].actual_start_time = SET
                        /\ job[j].actual_start_time = NULL
                THEN [clock[j] EXCEPT !.started_late =
                         (job[j].sla_deadline = SET /\ clock[j].sla_due)]
                ELSE clock[j]]

\* time passes the next start deadline of a booking that waits to start
StartDeadlinePasses(j) ==
    LET c == clock[j]
    IN  /\ Exists(j)
        /\ job[j].status \in {PENDING, PENDING_ASSIGNMENT, CONFIRMED, ASSIGNED}
        /\ ~(c.scheduled_due /\ c.sla_due)
        /\ clock' = [clock EXCEPT ![j] =
              CASE c.first = "scheduled" /\ ~c.scheduled_due ->
                      [c EXCEPT !.scheduled_due = TRUE]
                [] c.first = "sla" /\ ~c.sla_due ->
                      [c EXCEPT !.sla_due = TRUE]
                [] OTHER ->
                      [c EXCEPT !.scheduled_due = TRUE, !.sla_due = TRUE]]
        /\ UNCHANGED <<job, payment, history, audit, profile, emp, wallet,
                       events, sess>>

\* SLAMonitor.get_delayed_jobs: the ids of the jobs it returns
get_delayed_jobs ==
    LET assigned_delayed ==
            {j \in JobIds : /\ job[j].status = ASSIGNED
                            /\ \/ job[j].sla_deadline = SET /\ clock[j].sla_due
                               \/ clock[j].scheduled_due}
        in_progress_late ==
            {j \in JobIds : /\ job[j].status = IN_PROGRESS
                            /\ job[j].actual_start_time # NULL
                            /\ job[j].sla_deadline # NULL
                            /\ clock[j].started_late}
    IN  assigned_delayed \cup in_progress_late

\* SLAMonitor.check_and_alert, a sweep that finds delayed jobs
CheckAndAlert ==
    /\ get_delayed_jobs # {}
    /\ \A s \in Sessions : sess[s].pc = "idle"
    /\ \A j \in get_delayed_jobs : alerts(events, j) < MaxAlerts
    /\ events' = [j \in JobIds |->
                    IF j \in get_delayed_jobs
                    THEN Append(events[j], "JOB_DELAYED") ELSE events[j]]
    /\ UNCHANGED <<job, payment, history, audit, profile, emp, wallet, sess>>

(***************************************************************************)
(* Pricing (api/bookings.py): amounts in cents, multipliers in hundredths  *)
(***************************************************************************)
\* 5% VAT
TAX_RATE == 5

\* Decimal.quantize(Decimal("0.01")) of the exact amount n / d cents, n >= 0:
\* no rounding argument, so the default context rounds half to even
quantize(n, d) ==
    LET q == n \div d
        r == n % d
    IN  IF 2 * r > d \/ (2 * r = d /\ q % 2 = 1) THEN q + 1 ELSE q

\* _calculate_booking_price: adjusted_subtotal
adjusted_subtotal(subtotal, demand_multiplier, rush_premium) ==
    quantize(subtotal * demand_multiplier * rush_premium, 10000)

\* create_booking, lines 600-613, for a booking that uses no subscription
final_price(subtotal, demand_multiplier, rush_premium, discount_amount) ==
    LET adjusted == adjusted_subtotal(subtotal, demand_multiplier, rush_premium)
        taxable_amount == IF adjusted - discount_amount < 0 THEN 0
                          ELSE adjusted - discount_amount
        tax_amount == quantize(taxable_amount * TAX_RATE, 100)
    IN  [tax_amount |-> tax_amount, total_price |-> taxable_amount + tax_amount]

\* the requests priced: subtotal, multipliers and calculated discount
PriceInputs ==
    [subtotal : {5000, 9999, 10000, 12010, 15030},
     demand_multiplier : {100, 105, 120},
     rush_premium : {100, 115, 125},
     discount_amount : {0, 1000, 20000}]

\* the pricing steps of create_booking
PriceBooking(in) ==
    LET p == final_price(in.subtotal, in.demand_multiplier, in.rush_premium,
                         in.discount_amount)
    IN  /\ quote' = [subtotal |-> in.subtotal,
                     demand_multiplier |-> in.demand_multiplier,
                     rush_premium |-> in.rush_premium,
                     discount_amount |-> in.discount_amount,
                     tax_amount |-> p.tax_amount, total_price |-> p.total_price,
                     priced |-> TRUE]
        /\ UNCHANGED <<job, payment, history, audit, profile, emp, wallet, events,
                       sess, last, user_status, wk, bk, weights, run, clock, bus,
                       side>>

(***************************************************************************)
(* Employee ids (services/employee_id_generator.py, api/employee_admin.py) *)
(***************************************************************************)
\* everything but the sequence table
others == <<job, payment, history, audit, profile, emp, wallet, events, sess, last,
            user_status, wk, bk, weights, run, clock, quote, bus>>

\* _get_next_sequence, lines 71-76: SELECT ... FOR UPDATE .first() sees the
\* committed rows of the pair, waits for the row lock and takes it; with no
\* row there is nothing to lock
GenSelect(p) ==
    LET visible == {r \in SeqRows : seq.rows[r].state = "committed"}
    IN  /\ seq.tx[p].pc = "idle"
        /\ Len(seq.log) < MaxCalls
        /\ IF visible = {}
           THEN seq' = [seq EXCEPT !.tx[p].pc = "missing"]
           ELSE \E r \in visible :
                   /\ seq.rows[r].lock = 0
                   /\ seq' = [seq EXCEPT !.rows[r].lock = p,
                                         !.tx[p] = [pc |-> "found", row |-> r,
                                                    ret |-> 0]]
        /\ UNCHANGED <<others, tries, metrics, loops>>

\* _get_next_sequence, lines 78-92: increment the row found, or add a row
\* with sequence 1; flush and return the number
GenWrite(p) ==
    /\ seq.tx[p].pc \in {"found", "missing"}
    /\ IF seq.tx[p].pc = "found"
       THEN LET r == seq.tx[p].row
                n == seq.rows[r].sequence + 1
            IN  seq' = [seq EXCEPT !.rows[r].sequence = n,
                                   !.tx[p] = [pc |-> "returned", row |-> r,
                                              ret |-> n],
                                   !.log = Append(@, n)]
       ELSE LET r == CHOOSE f \in SeqRows :
                        /\ seq.rows[f].state = "free"
                        /\ \A g \in SeqRows : seq.rows[g].state = "free" => f <= g
            IN  seq' = [seq EXCEPT !.rows[r] = [sequence |-> 1, state |-> "pending",
                                                lock |-> p],
                                   !.tx[p] = [pc |-> "returned", row |-> r,
                                              ret |-> 1],
                                   !.log = Append(@, 1)]
    /\ UNCHANGED <<others, tries, metrics, loops>>

\* create_employee, lines 192-206: the employee row with the generated id and
\* db.commit(); employees.employee_id is unique, so a second commit of the
\* same id fails and the session's writes are rolled back
CommitEmployee(p) ==
    LET r == seq.tx[p].row
        id == seq.tx[p].ret
    IN  /\ seq.tx[p].pc = "returned"
        /\ IF id \in seq.ids
           THEN seq' = [seq EXCEPT
                           !.rows[r] = IF @.state = "pending" THEN NoRow
                                       ELSE [@ EXCEPT !.sequence = @ - 1,
                                                      !.lock = 0],
                           !.tx[p] = NoTx]
           ELSE seq' = [seq EXCEPT
                           !.rows[r] = [@ EXCEPT !.state = "committed",
                                                 !.lock = 0],
                           !.ids = @ \cup {id},
                           !.tx[p] = NoTx]
        /\ UNCHANGED <<others, tries, metrics, loops>>

(***************************************************************************)
(* Event delivery (services/events.py, job_state_machine.py 203-262)       *)
(***************************************************************************)
\* the events the step hands to event_publisher.publish for booking j
published(j) == SubSeq(events'[j], Len(events[j]) + 1, Len(events'[j]))

\* _publish_transition_event: asyncio.create_task(event_publisher.publish(...)),
\* the publish runs when the event loop reaches the task
create_task ==
    bus' = [j \in JobIds |-> [bus[j] EXCEPT !.ready = @ \o published(j)]]

\* await event_publisher.publish(...) in a handler: the subscribers are
\* called before the handler goes on
await_publish ==
    bus' = [j \in JobIds |-> [bus[j] EXCEPT !.seen = @ \o published(j)]]

\* the event loop runs the oldest publish task
RunTask(j) ==
    /\ bus[j].ready # <<>>
    /\ bus' = [bus EXCEPT ![j] = [ready |-> Tail(@.ready),
                                  seen |-> Append(@.seen, Head(@.ready))]]
    /\ UNCHANGED <<job, payment, history, audit, profile, emp, wallet, events,
                   sess, last, user_status, wk, bk, weights, run, clock, quote,
                   side>>

(***************************************************************************)
(* Allocation engine (services/allocation_engine.py)                       *)
(***************************************************************************)
\* ADJACENT_REGIONS, in the order the engine walks them
ADJACENT_REGIONS(r) ==
    CASE r = "DXB" -> <<"SHJ", "AJM">>
      [] r = "SHJ" -> <<"DXB", "AJM", "UAQ">>
      [] r = "AJM" -> <<"DXB", "SHJ", "UAQ">>
      [] r = "UAQ" -> <<"SHJ", "AJM", "RAK">>
      [] r = "RAK" -> <<"UAQ", "FUJ">>
      [] r = "FUJ" -> <<"RAK">>
      [] OTHER -> <<>>

\* _haversine_distance between the REGION_COORDINATES of two regions, in
\* tenths of a kilometre (21.8 km, 122.9 km, 144.7 km)
distance_km10(r1, r2) ==
    IF r1 = r2 THEN 0
    ELSE IF {r1, r2} = {"DXB", "SHJ"} THEN 218
    ELSE IF {r1, r2} = {"DXB", "AUH"} THEN 1229
    ELSE 1447

\* a score of 1.0: scores are kept as integers so that they compare exactly
ScoreScale == 3000

\* the length has_time_conflict gives a booking that has no
\* scheduled_end_time, and the length _attempt_assignment passes: 2.5 hours
DEFAULT_DURATION == 5

\* AllocationConfig.max_candidates_to_try
MAX_CANDIDATES_TO_TRY == 5

\* cleaner_assignment.has_time_conflict on the allocation bookings; no
\* handler writes scheduled_end_time, so the existing booking always ends
\* DEFAULT_DURATION after its start
has_time_conflict_at(cleaner_id, scheduled_date, duration, exclude_booking_id) ==
    \E k \in AJobs \ {exclude_booking_id} :
        /\ bk[k].status # NULL
        /\ bk[k].assigned_employee_id = cleaner_id
        /\ bk[k].status \notin {CANCELLED, NO_SHOW}
        /\ bk[k].scheduled_date < scheduled_date + duration
        /\ bk[k].scheduled_date + DEFAULT_DURATION > scheduled_date

\* the keys of the queue-position map of a region: its active employees
queue_keys(region) ==
    {w \in AWorkers : wk[w].region = region /\ wk[w].account_status = ACTIVE}

RECURSIVE set_max(_)
set_max(S) ==
    IF S = {} THEN 0
    ELSE LET x == CHOOSE y \in S : TRUE
             m == set_max(S \ {x})
         IN  IF x > m THEN x ELSE m

\* _calculate_candidate_scores
queue_score(w) ==
    LET positions == {wk[v].queue_position : v \in queue_keys(wk[w].region)}
        max_pos == IF positions = {} THEN 1 ELSE set_max(positions)
    IN  IF max_pos > 0
        THEN ScoreScale - (ScoreScale * wk[w].queue_position) \div (max_pos + 1)
        ELSE ScoreScale \div 2

distance_score(region, w) ==
    LET d == ScoreScale - (ScoreScale * distance_km10(region, wk[w].region)) \div 500
    IN  IF d < 0 THEN 0 ELSE d

rating_score(w) == (ScoreScale * wk[w].rating) \div 50

total_score(w, region, config) ==
    config.queue * queue_score(w) + config.distance * distance_score(region, w)
        + config.rating * rating_score(w)

\* the rows of the employees table in the order a query without ORDER BY
\* returns them: any order
RowOrders ==
    {q \in [1..Cardinality(AWorkers) -> AWorkers] :
        \A i, k \in DOMAIN q : i # k => q[i] # q[k]}

\* AllocationEngine._get_scored_candidates(region_code, ...) for booking j
scored_candidates(region, j, rows) ==
    LET ok(w) == /\ wk[w].account_status = ACTIVE
                 /\ wk[w].region = region
                 /\ ~has_time_conflict_at(w, bk[j].scheduled_date, bk[j].duration, j)
    IN  SelectSeq(rows, ok)

\* AllocationEngine._get_all_available_candidates
all_available_candidates(j, rows) ==
    LET ok(w) == /\ wk[w].account_status = ACTIVE
                 /\ ~has_time_conflict_at(w, bk[j].scheduled_date, bk[j].duration, j)
    IN  SelectSeq(rows, ok)

\* allocate_cleaner, lines 170-180: candidates.extend over the adjacent regions
RECURSIVE adjacent_candidates(_, _, _)
adjacent_candidates(regions, j, rows) ==
    IF regions = <<>> THEN <<>>
    ELSE scored_candidates(Head(regions), j, rows)
            \o adjacent_candidates(Tail(regions), j, rows)

\* candidates.sort(key=total_score, reverse=True): a stable sort, candidates
\* of equal score stay in the order they were found
RECURSIVE sort_by_score(_, _, _)
sort_by_score(list, region, config) ==
    IF list = <<>> THEN <<>>
    ELSE LET h == Head(list)
             rest == sort_by_score(Tail(list), region, config)
             above(w) == total_score(w, region, config) > total_score(h, region, config)
             below(w) == ~above(w)
         IN  SelectSeq(rest, above) \o <<h>> \o SelectSeq(rest, below)

\* allocate_cleaner, lines 140-198: the sorted candidates of booking j and
\* the flags, with expand_to_adjacent_regions and fallback_to_any_region on
candidate_plan(j, rows) ==
    LET region == bk[j].region
        primary == scored_candidates(region, j, rows)
        adjacent == IF primary = <<>>
                    THEN adjacent_candidates(ADJACENT_REGIONS(region), j, rows)
                    ELSE <<>>
        anywhere == IF primary = <<>> /\ adjacent = <<>>
                    THEN all_available_candidates(j, rows) ELSE <<>>
        list == IF primary # <<>> THEN primary
                ELSE IF adjacent # <<>> THEN adjacent ELSE anywhere
        sorted == sort_by_score(list, region, weights)
        top == IF Len(sorted) > MAX_CANDIDATES_TO_TRY
               THEN SubSeq(sorted, 1, MAX_CANDIDATES_TO_TRY) ELSE sorted
    IN  [cands |-> top,
         region_expanded |-> primary = <<>> /\ adjacent # <<>>,
         fallback_used |-> primary = <<>> /\ adjacent = <<>> /\ anywhere # <<>>]

\* the loop over the candidates: the first one _attempt_assignment does not
\* refuse (it re-checks the conflict with a length of 2.5 hours), or NULL
RECURSIVE first_free(_, _)
first_free(cands, j) ==
    IF cands = <<>> THEN NULL
    ELSE IF ~has_time_conflict_at(Head(cands), bk[j].scheduled_date,
                                  DEFAULT_DURATION, j)
    THEN Head(cands)
    ELSE first_free(Tail(cands), j)

\* the AllocationResult of a call that found candidates p and committed w
allocation_result(j, p, w) ==
    [pc |-> "done", job |-> j, cands |-> p.cands, pick |-> w,
     region_expanded |-> p.cands # <<>> /\ p.region_expanded,
     fallback_used |-> p.cands # <<>> /\ p.fallback_used,
     success |-> w # NULL, worker |-> w, weights |-> weights]

\* the tables of the booking lifecycle, which allocation leaves alone
core == <<job, payment, history, audit, profile, emp, wallet, events, sess,
          last, user_status, clock, quote, bus, side>>

\* a booking is created and committed; allocation runs after that commit
ACreate(j, region, scheduled_date, duration) ==
    /\ bk[j].status = NULL
    /\ bk' = [bk EXCEPT ![j] = [status |-> PENDING, region |-> region,
                                 scheduled_date |-> scheduled_date,
                                 duration |-> duration,
                                 assigned_employee_id |-> NULL]]
    /\ UNCHANGED <<core, wk, weights, run>>

\* cancel_booking: the booking keeps its employee and leaves the schedule
ACancel(j) ==
    /\ bk[j].status = PENDING
    /\ \A s \in ASessions : run[s].pc \in {"idle", "done"}
    /\ bk' = [bk EXCEPT ![j].status = CANCELLED]
    /\ UNCHANGED <<core, wk, weights, run>>

\* AllocationEngine(db, config) built with other weights
SetWeights(config) ==
    /\ weights # config
    /\ weights' = config
    /\ UNCHANGED <<core, wk, bk, run>>

\* allocate_cleaner(booking j) running alone, as call number s
Allocate(s, j, rows) ==
    LET p == candidate_plan(j, rows)
        w == first_free(p.cands, j)
    IN  /\ bk[j].status = PENDING
        /\ run[s].pc = "idle"
        /\ \A t \in ASessions : run[t].pc \in {"idle", "done"}
        /\ bk' = IF w # NULL THEN [bk EXCEPT ![j].assigned_employee_id = w] ELSE bk
        /\ run' = [run EXCEPT ![s] = allocation_result(j, p, w)]
        /\ UNCHANGED <<core, wk, weights>>

\* allocate_cleaner in steps, so that two calls interleave: the candidate
\* queries and the sort
ABegin(s, j, rows) ==
    LET p == candidate_plan(j, rows)
    IN  /\ bk[j].status = PENDING
        /\ bk[j].assigned_employee_id = NULL
        /\ run[s].pc = "idle"
        /\ run' = [run EXCEPT ![s] =
                      IF p.cands = <<>> THEN allocation_result(j, p, NULL)
                      ELSE [allocation_result(j, p, NULL) EXCEPT !.pc = "scored"]]
        /\ UNCHANGED <<core, wk, bk, weights>>

\* _attempt_assignment, lines 484-492: the re-check of the conflict
AVerify(s) ==
    LET w == first_free(run[s].cands, run[s].job)
    IN  /\ run[s].pc = "scored"
        /\ run' = [run EXCEPT ![s] =
                      IF w = NULL THEN [@ EXCEPT !.pc = "done"]
                      ELSE [@ EXCEPT !.pc = "verified", !.pick = w]]
        /\ UNCHANGED <<core, wk, bk, weights>>

\* _attempt_assignment, lines 494-501: the assignment and db.commit()
AWrite(s) ==
    /\ run[s].pc = "verified"
    /\ bk' = [bk EXCEPT ![run[s].job].assigned_employee_id = run[s].pick]
    /\ run' = [run EXCEPT ![s] = [@ EXCEPT !.pc = "done", !.success = TRUE,
                                            !.worker = run[s].pick]]
    /\ UNCHANGED <<core, wk, weights>>

(***************************************************************************)
(* The candidate loop of allocate_cleaner (allocation_engine.py 183-243)   *)
(***************************************************************************)
\* candidates.sort(key=lambda c: c.total_score, reverse=True)
RECURSIVE sort_candidates(_)
sort_candidates(list) ==
    IF list = <<>> THEN <<>>
    ELSE LET h == Head(list)
             sorted == sort_candidates(Tail(list))
             above(c) == CandScore[c] > CandScore[h]
             below(c) == ~above(c)
         IN  SelectSeq(sorted, above) \o <<h>> \o SelectSeq(sorted, below)

\* candidates[:self.config.max_candidates_to_try]
top_candidates(list) ==
    IF Len(list) > MAX_CANDIDATES_TO_TRY
    THEN SubSeq(list, 1, MAX_CANDIDATES_TO_TRY) ELSE list

\* lines 183-196: a call that found n candidates returns at once when there
\* are none, and sorts them otherwise
TryBegin(n) ==
    /\ tries.pc \in {"idle", "done"}
    /\ tries' = IF n = 0
                THEN [pc |-> "done", cands |-> <<>>, tried |-> <<>>,
                      result |-> [NoResult EXCEPT
                                     !.failure_reason = "No available cleaners found"]]
                ELSE [pc |-> "loop", cands |-> sort_candidates([i \in 1..n |-> i]),
                      tried |-> <<>>, result |-> NoResult]
    /\ UNCHANGED <<others, seq, metrics, loops>>

\* lines 202-243: one pass of the loop and, after the last one, the result.
\* _attempt_assignment has no await in it, so asyncio.wait_for gets the
\* result back however long the attempt took and never raises TimeoutError
TryAttempt(out, took) ==
    LET i == Len(tries.tried) + 1
        c == tries.cands[i]
        tried == Append(tries.tried, [candidate |-> c, took |-> took, out |-> out])
    IN  /\ tries.pc = "loop"
        /\ tries' =
              IF out = "assigned"
              THEN [tries EXCEPT !.pc = "done", !.tried = tried,
                                 !.result = [success |-> TRUE,
                                             assigned_employee |-> c,
                                             candidates_evaluated |-> i,
                                             failure_reason |-> NULL]]
              ELSE IF i = Len(top_candidates(tries.cands))
              THEN [tries EXCEPT !.pc = "done", !.tried = tried,
                                 !.result = [success |-> FALSE,
                                             assigned_employee |-> 0,
                                             candidates_evaluated |-> i,
                                             failure_reason |->
                                                 "All candidates rejected or timed out"]]
              ELSE [tries EXCEPT !.tried = tried]
        /\ UNCHANGED <<others, seq, metrics, loops>>

(***************************************************************************)
(* Allocation metrics (allocation_engine.py 528-568, services/cache.py)    *)
(***************************************************************************)
\* _record_metric, lines 539-554: await cache_service.get(cache_key); the
\* metrics found, or zeros when the key is missing
MetricGet(s, result) ==
    /\ metrics.call[s].pc = "idle"
    /\ metrics' = [metrics EXCEPT
                      !.call[s] = [pc |-> "read", result |-> result,
                                   local |-> [metrics.cache EXCEPT
                                                 !.present = TRUE]]]
    /\ UNCHANGED <<others, seq, tries, loops>>

\* _record_metric, lines 556-565: the counters are incremented in the copy
\* and await cache_service.set(cache_key, ...) stores it; the call returns
MetricSet(s) ==
    LET m == metrics.call[s].local
        n == [m EXCEPT !.total_allocations = @ + 1,
                       !.successful = IF metrics.call[s].result = "success"
                                      THEN @ + 1 ELSE @,
                       !.failed = IF metrics.call[s].result = "success"
                                  THEN @ ELSE @ + 1]
    IN  /\ metrics.call[s].pc = "read"
        /\ metrics' = [metrics EXCEPT !.cache = n,
                                      !.call[s].pc = "done",
                                      !.call[s].local = n,
                                      !.finished = @ + 1]
        /\ UNCHANGED <<others, seq, tries, loops>>

(***************************************************************************)
(* Background loops (services/sla_monitor.py 304-429)                      *)
(***************************************************************************)
\* a loop body that lets every exception of a sweep end the task
swallowed_nothing(raised) == FALSE

\* except Exception as e: logger.error(...): the errors of a sweep are
\* caught, asyncio.CancelledError is not an Exception and is not
swallowed(raised) == raised = "Exception"

\* BackgroundTaskRunner.start
StartRunner ==
    /\ ~loops.running
    /\ ~loops.stopped
    /\ loops' = [loops EXCEPT !.running = TRUE,
                              !.task = [l \in Loops |-> [NoTask EXCEPT !.pc = "new"]]]
    /\ UNCHANGED <<others, seq, tries, metrics>>

\* the task after a sweep that ended with out: asleep, or over
after_sweep(t, out) ==
    IF out = "ok" THEN [t EXCEPT !.pc = "sleep", !.log = Append(@, "ok")]
    ELSE IF swallowed(out)
    THEN [t EXCEPT !.pc = "sleep", !.log = Append(@, "raised")]
    ELSE [t EXCEPT !.pc = "ended", !.cancel = FALSE,
                   !.log = Append(@, IF out = "CancelledError" THEN "cancelled"
                                     ELSE "raised")]

\* sweeps loop l has begun
sweeps_begun(l) ==
    Len(loops.task[l].log) + IF loops.task[l].pc = "sweep" THEN 1 ELSE 0

\* sweeps begun by all loops
RECURSIVE total_sweeps(_)
total_sweeps(S) ==
    IF S = {} THEN 0
    ELSE LET l == CHOOSE x \in S : TRUE
         IN  sweeps_begun(l) + total_sweeps(S \ {l})

\* _run_* from the task's first step or from asyncio.sleep: a cancelled
\* task gets CancelledError there and ends; while self._running is tested;
\* the sweep runs to its end (ok or Exception) or to an await inside it
LoopTurn(l, out) ==
    LET t == loops.task[l]
    IN  /\ t.pc \in {"new", "sleep"}
        /\ IF t.cancel THEN out = "ok"
           ELSE IF ~loops.running THEN out = "ok"
           ELSE /\ total_sweeps(Loops) < MaxSweeps
                /\ out = "awaits" => l \in Awaiting
        /\ loops' = [loops EXCEPT !.task[l] =
                        IF t.cancel \/ ~loops.running
                        THEN [t EXCEPT !.pc = "ended", !.cancel = FALSE]
                        ELSE IF out = "awaits" THEN [t EXCEPT !.pc = "sweep"]
                        ELSE after_sweep(t, out)]
        /\ UNCHANGED <<others, seq, tries, metrics>>

\* the sweep goes on from its await: CancelledError is raised there when
\* the task was cancelled, else the sweep ends ok or with an Exception
SweepResume(l, out) ==
    LET t == loops.task[l]
    IN  /\ t.pc = "sweep"
        /\ loops' = [loops EXCEPT !.task[l] =
                        after_sweep(t, IF t.cancel THEN "CancelledError" ELSE out)]
        /\ UNCHANGED <<others, seq, tries, metrics>>

\* BackgroundTaskRunner.stop: the flag is cleared and every task cancelled
StopRunner ==
    /\ loops.running
    /\ loops' = [loops EXCEPT
                    !.running = FALSE, !.stopped = TRUE,
                    !.at_stop = [l \in Loops |-> loops.task[l].pc],
                    !.task = [l \in Loops |->
                                 [loops.task[l] EXCEPT !.cancel = @ \/ (loops.task[l].pc # "ended")]]]
    /\ UNCHANGED <<others, seq, tries, metrics>>

(***************************************************************************)
(* Specifications                                                          *)
(***************************************************************************)
\* inputs of the calls
Keys == {"k1"}

\* expected_version as a caller passes it: none, the version the booking has
\* now, or the one it had before its last change
ExpectedVersions(j) ==
    IF Exists(j)
    THEN {NoVersion, job[j].version} \cup (IF job[j].version > 1 THEN {job[j].version - 1} ELSE {})
    ELSE {NoVersion}

\* who calls the state machine: the admin, the cleaner and another cleaner
Actors == {Admin} \cup Cleaners \cup {Outsider}

\* statuses an admin sets by hand: one during the work, one terminal
AdminStatuses == {ASSIGNED, COMPLETED}

TransitionCall(j, new_status, actor, expected_version) ==
    [op |-> "transition", job |-> j, from |-> job[j].status,
     version |-> IF Exists(j) THEN job[j].version ELSE 0,
     to |-> new_status, actor |-> actor, ev |-> expected_version,
     guard |-> IF Exists(j) THEN validate_transition(job[j], new_status, actor)
               ELSE NULL,
     result |-> transition_checks(job[j], new_status, actor, expected_version)]

\* the state machine called directly, its outcome observed in last
SMNext ==
    \/ \E j \in JobIds, price \in Prices :
          CreateBooking(j, price) /\ last' = NoCall /\ UNCHANGED ext
    \/ \E j \in JobIds : \E to \in BookingStatus, a \in Actors, ev \in ExpectedVersions(j) :
          Transition(j, to, a, ev) /\ last' = TransitionCall(j, to, a, ev)
             /\ UNCHANGED ext
    \/ \E j \in JobIds, c \in Cleaners :
          AssignCleaner(j, c) /\ last' = NoCall /\ UNCHANGED ext
    \/ \E c \in Cleaners : GoOnline(c) /\ last' = NoCall /\ UNCHANGED ext
    \/ \E j \in JobIds : CreateCheckout(j) /\ last' = NoCall /\ UNCHANGED ext
    \/ \E j \in JobIds : VerifyPayment(j) /\ last' = NoCall /\ UNCHANGED ext
    \/ \E j \in JobIds : PauseLimitElapses(j) /\ last' = NoCall /\ UNCHANGED ext

SMSpec == Init /\ [][SMNext]_vars

\* the booking lifecycle: its handlers and sweeps, each request running alone
Next ==
    \/ \E j \in JobIds, price \in Prices : CreateBooking(j, price) /\ UNCHANGED <<last, ext>>
    \/ \E j \in JobIds, u \in {Customer, Admin}, remaining \in {FAR, NEAR} :
          CancelBooking(j, u, remaining) /\ UNCHANGED <<last, ext>>
    \/ \E j \in JobIds, st \in AdminStatuses :
          UpdateBookingStatus(j, st) /\ UNCHANGED <<last, ext>>
    \/ \E j \in JobIds : CreateCheckout(j) /\ UNCHANGED <<last, ext>>
    \/ \E j \in JobIds : VerifyPayment(j) /\ UNCHANGED <<last, ext>>
    \/ \E j \in JobIds : StripeWebhook(j) /\ UNCHANGED <<last, ext>>
    \/ \E j \in JobIds, whole \in BOOLEAN : CreateRefund(j, whole) /\ UNCHANGED <<last, ext>>
    \/ \E j \in JobIds : Unassign(j) /\ UNCHANGED <<last, ext>>
    \/ \E e \in Employees, st \in {ACTIVE, SUSPENDED} :
          \* explored while a booking is still to be created: the allocation
          \* at creation is the only reader of account_status in this surface
          /\ \E j \in JobIds : ~Exists(j)
          /\ UpdateEmployee(e, st) /\ UNCHANGED <<last, ext>>
    \/ \E c \in Cleaners : GoOnline(c) /\ UNCHANGED <<last, ext>>
    \/ \E c \in Cleaners : GoOffline(c) /\ UNCHANGED <<last, ext>>
    \/ ReleaseExpiredCooldowns /\ UNCHANGED <<last, ext>>
    \/ CancelUnpaidBookings /\ UNCHANGED <<last, ext>>
    \/ \E j \in JobIds : PaymentWindowElapses(j) /\ UNCHANGED <<last, ext>>
    \/ \E j \in JobIds : PauseLimitElapses(j) /\ UNCHANGED <<last, ext>>
    \/ \E c \in Cleaners : CooldownExpires(c) /\ UNCHANGED <<last, ext>>
    \/ \E j \in JobIds, c \in Cleaners : AssignCleaner(j, c) /\ UNCHANGED <<last, ext>>
    \/ \E j \in JobIds : \E op \in EndpointOps, u \in {Admin, Customer} \cup Cleaners,
                            ev \in ExpectedVersions(j), k \in Keys :
          Endpoint(op, j, u, ev, k) /\ UNCHANGED <<last, ext>>

Spec == Init /\ [][Next]_vars

\* the cleaner endpoints as interleaving requests
ConcNext ==
    \/ \E j \in JobIds, price \in Prices : CreateBooking(j, price) /\ UNCHANGED <<last, ext>>
    \/ \E j \in JobIds : CreateCheckout(j) /\ UNCHANGED <<last, ext>>
    \/ \E j \in JobIds : VerifyPayment(j) /\ UNCHANGED <<last, ext>>
    \/ \E j \in JobIds, c \in Cleaners : AssignCleaner(j, c) /\ UNCHANGED <<last, ext>>
    \/ \E c \in Cleaners : GoOnline(c) /\ UNCHANGED <<last, ext>>
    \/ \E j \in JobIds : PauseLimitElapses(j) /\ UNCHANGED <<last, ext>>
    \/ \E j \in JobIds : \E s \in Sessions, op \in EndpointOps, u \in Cleaners,
                            ev \in ExpectedVersions(j), k \in Keys :
          Begin(s, op, j, u, ev, k) /\ UNCHANGED <<last, ext>>
    \/ \E s \in Sessions : RewardsCommit(s) /\ UNCHANGED <<last, ext>>
    \/ \E s \in Sessions : FinalCommit(s) /\ UNCHANGED <<last, ext>>
    \/ \E s \in Sessions : Fault(s) /\ UNCHANGED <<last, ext>>

ConcSpec == Init /\ [][ConcNext]_vars

\* who may be attached to a booking: the three assignment paths, with the
\* account of the employee and of the cleaner user changed by an admin; a
\* user who is not active cannot call go-online (deps.get_current_user)
AssignNext ==
    \/ \E j \in JobIds, price \in Prices :
          CreateBooking(j, price) /\ UNCHANGED <<last, ext>>
    \/ \E j \in JobIds, c \in Cleaners :
          AssignCleaner(j, c) /\ UNCHANGED <<last, ext>>
    \/ \E j \in JobIds, e \in Employees :
          AssignEmployee(j, e) /\ UNCHANGED <<last, ext>>
    \/ \E j \in JobIds : Unassign(j) /\ UNCHANGED <<last, ext>>
    \/ \E j \in JobIds : CreateCheckout(j) /\ UNCHANGED <<last, ext>>
    \/ \E j \in JobIds : VerifyPayment(j) /\ UNCHANGED <<last, ext>>
    \/ \E e \in Employees, st \in {ACTIVE, SUSPENDED} :
          UpdateEmployee(e, st) /\ UNCHANGED <<last, ext>>
    \/ \E c \in Cleaners, st \in {ACTIVE, SUSPENDED} :
          UpdateUserStatus(c, st) /\ UNCHANGED <<wk, bk, weights, run, clock, quote, bus, side>>
    \/ \E c \in Cleaners :
          user_status[c] = ACTIVE /\ GoOnline(c) /\ UNCHANGED <<last, ext>>
    \/ \E j \in JobIds, u \in {Customer, Admin}, remaining \in {FAR, NEAR} :
          CancelBooking(j, u, remaining) /\ UNCHANGED <<last, ext>>

AssignSpec == Init /\ [][AssignNext]_vars

\* the employees the allocation engine is run on: employee a is active, the
\* active employees of a region hold the queue positions 1..n of that region
WorkerTables ==
    {t \in [AWorkers -> [region : {"DXB", "SHJ"},
                         account_status : {ACTIVE, SUSPENDED},
                         rating : Ratings, queue_position : 0..2]] :
        /\ t["a"].account_status = ACTIVE
        /\ \A w \in AWorkers :
              LET peers == {v \in AWorkers : /\ t[v].account_status = ACTIVE
                                             /\ t[v].region = t[w].region}
              IN  IF t[w].account_status = ACTIVE
                  THEN /\ t[w].queue_position \in 1..Cardinality(peers)
                       /\ \A v \in peers \ {w} :
                             t[v].queue_position # t[w].queue_position
                  ELSE t[w].queue_position = 0}

AllocInit ==
    /\ CoreInit
    /\ wk \in WorkerTables
    /\ bk = [j \in AJobs |-> NoJob]
    /\ weights = DefaultWeights
    /\ run = [s \in ASessions |-> NoRun]

\* the bookings made: region and window <<scheduled_date, duration>>;
\* booking 1 is the earlier or the longer one
RegionsOf(j) == IF j = 1 THEN {"DXB", "SHJ"} ELSE ARegions
WindowsOf(j) == IF j = 1 THEN {<<0, 5>>, <<0, 8>>, <<3, 5>>}
                ELSE {<<0, 2>>, <<0, 5>>, <<6, 5>>}

\* allocate_cleaner, each call running alone
AllocNext ==
    \/ \E j \in AJobs : \E r \in RegionsOf(j), w \in WindowsOf(j) :
          ACreate(j, r, w[1], w[2])
    \/ \E j \in AJobs : ACancel(j)
    \/ \E c \in {DefaultWeights, RatingWeights} :
          \* the configuration changes between two calls
          run[1].pc = "done" /\ run[2].pc = "idle" /\ SetWeights(c)
    \/ \E s \in ASessions, j \in AJobs, rows \in RowOrders :
          (IF s = 1 THEN TRUE ELSE run[s - 1].pc = "done") /\ Allocate(s, j, rows)

AllocSpec == AllocInit /\ [][AllocNext]_vars

\* allocate_cleaner calls of two requests, interleaving
AllocConcNext ==
    \/ \E j \in AJobs : \E r \in RegionsOf(j), w \in WindowsOf(j) :
          ACreate(j, r, w[1], w[2])
    \/ \E j \in AJobs : ACancel(j)
    \/ \E s \in ASessions, j \in AJobs, rows \in RowOrders :
          (IF s = 1 THEN TRUE ELSE run[s - 1].pc # "idle") /\ ABegin(s, j, rows)
    \/ \E s \in ASessions : AVerify(s)
    \/ \E s \in ASessions : AWrite(s)

AllocConcSpec == AllocInit /\ [][AllocConcNext]_vars

\* the start deadline: assignment, reschedule, start and the SLA sweep
SlaNext ==
    \/ \E j \in JobIds, price \in Prices :
          CreateBooking(j, price) /\ UNCHANGED <<last, alloc, clock>>
    \/ \E j \in JobIds : CreateCheckout(j) /\ UNCHANGED <<last, alloc, clock>>
    \/ \E j \in JobIds : VerifyPayment(j) /\ UNCHANGED <<last, alloc, clock>>
    \/ \E c \in Cleaners : GoOnline(c) /\ UNCHANGED <<last, alloc, clock>>
    \/ \E j \in JobIds, c \in Cleaners :
          AssignCleaner(j, c) /\ deadline_writes /\ UNCHANGED <<last, alloc>>
    \/ \E j \in JobIds : \E op \in EndpointOps, u \in Cleaners,
                            ev \in ExpectedVersions(j), k \in Keys :
          Endpoint(op, j, u, ev, k) /\ deadline_writes /\ UNCHANGED <<last, alloc>>
    \/ \E j \in JobIds, u \in {Customer, Admin}, first \in {"scheduled", "sla", "both"} :
          RescheduleBooking(j, u, first) /\ UNCHANGED <<last, alloc>>
    \/ \E j \in JobIds : StartDeadlinePasses(j) /\ UNCHANGED <<last, alloc>>
    \/ CheckAndAlert /\ UNCHANGED <<last, alloc, clock>>

SlaSpec == Init /\ [][SlaNext]_vars

\* create_booking pricing one request after another
PriceNext == \E in \in PriceInputs : PriceBooking(in)

PriceSpec == Init /\ [][PriceNext]_vars

\* the handlers that publish job events, and the event loop
\* employee ids: the create_employee requests of several sessions
SeqNext ==
    \/ \E p \in Callers : GenSelect(p)
    \/ \E p \in Callers : GenWrite(p)
    \/ \E p \in Callers : CommitEmployee(p)

SeqSpec == Init /\ [][SeqNext]_vars

\* allocation: the candidate loop of one call after another
TryNext ==
    \/ \E n \in 0..MaxCands : TryBegin(n)
    \/ \E out \in AttemptOutcomes, took \in AttemptSeconds : TryAttempt(out, took)

TrySpec == Init /\ [][TryNext]_vars

\* allocation metrics: the calls of several requests record their result
MetricNext ==
    \/ \E s \in MetricCalls, result \in {"success", "failure"} : MetricGet(s, result)
    \/ \E s \in MetricCalls : MetricSet(s)

MetricSpec == Init /\ [][MetricNext]_vars

\* the background loops: the event loop runs every task that can go on,
\* and every sleep ends
LoopNext ==
    \/ StartRunner
    \/ \E l \in Loops, out \in {"ok", "Exception", "awaits"} : LoopTurn(l, out)
    \/ \E l \in Loops, out \in {"ok", "Exception"} : SweepResume(l, out)
    \/ StopRunner

LoopSpec ==
    /\ Init
    /\ [][LoopNext]_vars
    /\ \A l \in Loops :
          /\ WF_vars(\E out \in {"ok", "Exception", "awaits"} : LoopTurn(l, out))
          /\ WF_vars(\E out \in {"ok", "Exception"} : SweepResume(l, out))

rest == <<last, user_status, wk, bk, weights, run, clock, quote, side>>

BusNext ==
    \/ \E j \in JobIds, price \in Prices :
          CreateBooking(j, price) /\ await_publish /\ UNCHANGED rest
    \/ \E j \in JobIds : CreateCheckout(j) /\ UNCHANGED <<rest, bus>>
    \/ \E j \in JobIds : VerifyPayment(j) /\ UNCHANGED <<rest, bus>>
    \/ \E c \in Cleaners : GoOnline(c) /\ UNCHANGED <<rest, bus>>
    \/ \E j \in JobIds, c \in Cleaners :
          AssignCleaner(j, c) /\ create_task /\ UNCHANGED rest
    \/ \E j \in JobIds : \E op \in EndpointOps, u \in Cleaners,
                            ev \in ExpectedVersions(j), k \in Keys :
          Endpoint(op, j, u, ev, k) /\ create_task /\ UNCHANGED rest
    \/ \E j \in JobIds, u \in {Customer, Admin} :
          CancelBooking(j, u, FAR) /\ await_publish /\ UNCHANGED rest
    \/ \E j \in JobIds : Unassign(j) /\ await_publish /\ UNCHANGED rest
    \/ \E j \in JobIds : RunTask(j)

BusSpec == Init /\ [][BusNext]_vars


(***************************************************************************)
(* Properties                                                              *)
(***************************************************************************)
\* C1: transition called without expected_version on a job whose guards are
\* satisfied succeeds and leaves the job in the target status when the pair
\* (from, to) is in the allowed-transition table, and raises
\* InvalidTransition, leaving the status as it was, when it is not; it never
\* returns successfully with the status unchanged.  (SMSpec)
C1_TableDecides ==
    (last.op = "transition" /\ last.from # NULL /\ last.ev = NoVersion
        /\ last.guard = "ok")
    => IF last.to \in VALID_TRANSITIONS(last.from)
       THEN last.result = "ok" /\ job[last.job].status = last.to
                               /\ last.to # last.from
       ELSE last.result = "InvalidTransition" /\ job[last.job].status = last.from

\* a job in progress has just been completed by a call without expected_version
C1_Witness ==
    /\ last.op = "transition" /\ last.ev = NoVersion /\ last.guard = "ok"
    /\ last.from = IN_PROGRESS /\ last.to = COMPLETED /\ last.result = "ok"
    /\ job[last.job].status = COMPLETED

\* C2: every successful change of a job's status increments version by
\* exactly 1, and version never changes otherwise, so that after N status
\* changes version = initial_version + N.  (Spec)
C2_VersionCountsStatusChanges ==
    [][\A j \in JobIds :
          Exists(j) =>
             IF job'[j].status # job[j].status
             THEN job'[j].version = job[j].version + 1
             ELSE job'[j].version = job[j].version]_vars

\* C3: a transition that fails while executing its side effects or
\* committing leaves the booking row (status, version, timestamps) and the
\* worker's row (status, counters) as they were when the call loaded them.
\* Stated for a request that runs with no other request in the round.
\* (ConcSpec)
C3_FailureLeavesNothing ==
    [][\A s \in Sessions :
          (/\ sess[s].pc # "idle"
           /\ sess'[s].pc = "idle"
           /\ sess'[s].result = "Error"
           /\ \A t \in Sessions \ {s} : sess[t] = Idle)
          => /\ job'[sess[s].job] = sess[s].snap
             /\ sess[s].snap.cleaner_id \in Cleaners
                    => profile'[sess[s].snap.cleaner_id] = sess[s].psnap]_vars

\* C4: of two transition calls on the same job that run concurrently with
\* the same expected_version, at most one commits.  (ConcSpec)
C4_OneWinner ==
    \A s, t \in Sessions :
        (/\ s # t
         /\ sess[s].pc = "idle" /\ sess[t].pc = "idle"
         /\ sess[s].job = sess[t].job
         /\ sess[s].ev # NoVersion /\ sess[s].ev = sess[t].ev)
        => ~(sess[s].result = "ok" /\ sess[t].result = "ok")

\* C5: two complete calls on the same job with the same idempotency key
\* return the same job snapshot and leave exactly one IN_PROGRESS ->
\* COMPLETED status-history row, exactly one JOB_COMPLETED event and
\* actual_end_time set.  (ConcSpec)
C5_IdempotentComplete ==
    \A s, t \in Sessions :
        (/\ s # t
         /\ sess[s].pc = "idle" /\ sess[t].pc = "idle"
         /\ sess[s].op = "complete" /\ sess[t].op = "complete"
         /\ sess[s].job = sess[t].job
         /\ sess[s].key # NULL /\ sess[s].key = sess[t].key
         /\ sess[s].result \in {"ok", "already"}
         /\ sess[t].result \in {"ok", "already"})
        => LET j == sess[s].job
           IN  /\ sess[s].ret = sess[t].ret
               /\ job[j].actual_end_time = SET
               /\ Cardinality({i \in 1..Len(history[j]) :
                       /\ history[j][i].previous_status = IN_PROGRESS
                       /\ history[j][i].new_status = COMPLETED}) = 1
               /\ Cardinality({i \in 1..Len(events[j]) :
                       events[j][i] = "JOB_COMPLETED"}) = 1


C7_PaidAndAllocatedIsAssigned ==
    \A j \in JobIds :
        (/\ Exists(j)
         /\ payment[j] = PAY_PAID
         /\ job[j].assigned_employee_id # NULL
         /\ job[j].status \in {PENDING, PENDING_ASSIGNMENT, CONFIRMED, ASSIGNED})
        => /\ job[j].status = ASSIGNED
           /\ job[j].sla_deadline = SET
           /\ emp[job[j].assigned_employee_id].cleaner_status = BUSY

\* C8: once a job is COMPLETED, REFUNDED, NO_SHOW, CANCELLED or FAILED, no
\* operation changes its status, except CANCELLED -> REFUNDED and
\* FAILED -> PENDING_ASSIGNMENT.  (Spec)
C8_TerminalIsFinal ==
    [][\A j \in JobIds :
          (/\ Exists(j)
           /\ job[j].status \in {COMPLETED, REFUNDED, NO_SHOW, CANCELLED, FAILED}
           /\ job'[j].status # job[j].status)
          => \/ job[j].status = CANCELLED /\ job'[j].status = REFUNDED
             \/ job[j].status = FAILED /\ job'[j].status = PENDING_ASSIGNMENT]_vars

\* C9: a job that is ASSIGNED, IN_PROGRESS or PAUSED has a worker reference
\* (a cleaner_id or an assigned_employee_id).  (Spec)
C9_ActiveJobHasWorker ==
    \A j \in JobIds :
        (Exists(j) /\ job[j].status \in {ASSIGNED, IN_PROGRESS, PAUSED})
        => (job[j].cleaner_id # NULL \/ job[j].assigned_employee_id # NULL)

\* C10: a worker's status is busy if and only if the worker holds exactly
\* one job that is ASSIGNED, IN_PROGRESS or PAUSED.  (Spec)
C10_BusyIffHoldsOneJob ==
    \A c \in Cleaners :
        profile[c].status = BUSY
        <=> Cardinality({j \in JobIds :
                /\ Exists(j)
                /\ job[j].cleaner_id = c
                /\ job[j].status \in {ASSIGNED, IN_PROGRESS, PAUSED}}) = 1

\* C11: whenever a step attaches a worker to a booking (the cleaner user in
\* cleaner_id, the employee in assigned_employee_id), the account of that
\* worker is active when the step commits
C11_OnlyActiveAssigned ==
    [][\A j \in JobIds :
          Exists(j)' =>
            /\ (/\ job'[j].cleaner_id # NULL
                /\ (~Exists(j) \/ job[j].cleaner_id # job'[j].cleaner_id))
               => user_status'[job'[j].cleaner_id] = ACTIVE
            /\ (/\ job'[j].assigned_employee_id # NULL
                /\ (~Exists(j) \/ job[j].assigned_employee_id
                                     # job'[j].assigned_employee_id))
               => emp'[job'[j].assigned_employee_id].account_status = ACTIVE]_vars

\* C12: for a job paused longer than the limit, a resume by the admin or by
\* the assigned cleaner fails with BadRequest and leaves the job as it is,
\* and fail(job, admin, reason) succeeds: the job is FAILED and its cleaner
\* is available
C12_PauseExpiryThenFail ==
    [][\A j \in JobIds :
          (/\ Exists(j) /\ job[j].status = PAUSED /\ job[j].paused_at = OVER_LIMIT
           /\ last'.op = "transition" /\ last'.job = j /\ last'.ev = NoVersion)
          => /\ (last'.to = IN_PROGRESS /\ last'.guard # "Forbidden")
                => (last'.result = "BadRequest" /\ job'[j] = job[j])
             /\ (last'.to = FAILED /\ last'.actor = Admin)
                => /\ last'.result = "ok"
                   /\ job'[j].status = FAILED
                   /\ job[j].cleaner_id \in DOMAIN profile
                        => profile'[job[j].cleaner_id].status = AVAILABLE]_vars

\* C13 as stated: a start (ASSIGNED to IN_PROGRESS) called by a cleaner who
\* is not the job's cleaner fails with Forbidden and changes nothing
C13_OutsiderStartForbidden ==
    [][\A j \in JobIds :
          (/\ last'.op = "transition" /\ last'.job = j
           /\ last'.from = ASSIGNED /\ last'.to = IN_PROGRESS
           /\ Role(last'.actor) = "cleaner" /\ job[j].cleaner_id # last'.actor)
          => /\ last'.result = "Forbidden"
             /\ UNCHANGED <<job, payment, history, audit, profile, emp, wallet,
                            events>>]_vars

\* C13 amended: such a start never succeeds and changes nothing; it fails
\* with Forbidden, or with ConcurrentModification when the call carries an
\* expected_version that is not the job's version (checked first)
C13_OutsiderStartNeverSucceeds ==
    [][\A j \in JobIds :
          (/\ last'.op = "transition" /\ last'.job = j
           /\ last'.from = ASSIGNED /\ last'.to = IN_PROGRESS
           /\ Role(last'.actor) = "cleaner" /\ job[j].cleaner_id # last'.actor)
          => /\ last'.result = IF last'.ev # NoVersion /\ last'.ev # last'.version
                                THEN "ConcurrentModification" ELSE "Forbidden"
             /\ UNCHANGED <<job, payment, history, audit, profile, emp, wallet,
                            events>>]_vars

\* a cleaner other than the one the job is assigned to was refused the start
C13_Witness ==
    /\ last.op = "transition" /\ last.from = ASSIGNED /\ last.to = IN_PROGRESS
    /\ last.actor = Outsider /\ last.result = "Forbidden"
    /\ job[last.job].status = ASSIGNED
    /\ job[last.job].cleaner_id \in Cleaners

\* C14: no employee holds two live bookings (neither cancelled nor no-show)
\* whose windows [scheduled_date, scheduled_date + duration) overlap
C14_NoDoubleBooking ==
    \A j, k \in AJobs :
        (/\ j # k
         /\ bk[j].status \notin {NULL, CANCELLED, NO_SHOW}
         /\ bk[k].status \notin {NULL, CANCELLED, NO_SHOW}
         /\ bk[j].assigned_employee_id # NULL
         /\ bk[j].assigned_employee_id = bk[k].assigned_employee_id)
        => ~(/\ bk[j].scheduled_date < bk[k].scheduled_date + bk[k].duration
             /\ bk[k].scheduled_date < bk[j].scheduled_date + bk[j].duration)


\* C15: with the worker set, the queue positions, the job and the weights
\* fixed and no other booking assigned, two runs of allocate_cleaner for the
\* same job select the same worker, and that worker has the highest total
\* score of the candidates
C15_SameWorkerEveryRun ==
    (/\ run[1].pc = "done" /\ run[2].pc = "done"
     /\ run[1].job = run[2].job
     /\ run[1].weights = run[2].weights
     /\ \A k \in AJobs \ {run[1].job} :
            bk[k].status = NULL \/ bk[k].assigned_employee_id = NULL)
    => /\ run[1].worker = run[2].worker
       /\ run[1].success =>
             \A i \in DOMAIN run[1].cands :
                total_score(run[1].worker, bk[run[1].job].region, run[1].weights)
                    >= total_score(run[1].cands[i], bk[run[1].job].region,
                                   run[1].weights)


\* C16: when the query on the job's region returns no candidate and some
\* active worker of an adjacent region is free for the job's window,
\* allocate_cleaner
\* succeeds with a worker of an adjacent region, region_expanded set and
\* fallback_used clear; region_expanded is set only when the query on the
\* primary region returned no candidate
C16_RegionFallback ==
    [][\A s \in ASessions :
          (run[s].pc = "idle" /\ run'[s].pc = "done") =>
              LET j == run'[s].job
                  region == bk[j].region
                  overlaps(k) ==
                      /\ bk[k].scheduled_date < bk[j].scheduled_date + bk[j].duration
                      /\ bk[j].scheduled_date < bk[k].scheduled_date + bk[k].duration
                  busy(w) == \E k \in AJobs \ {j} :
                                /\ bk[k].status \notin {NULL, CANCELLED, NO_SHOW}
                                /\ bk[k].assigned_employee_id = w
                                /\ overlaps(k)
                  free(w) == wk[w].account_status = ACTIVE /\ ~busy(w)
                  near == {ADJACENT_REGIONS(region)[i] :
                              i \in DOMAIN ADJACENT_REGIONS(region)}
                  adjacent == {w \in AWorkers : free(w) /\ wk[w].region \in near}
                  rows == CHOOSE q \in RowOrders : TRUE
                  primary == scored_candidates(region, j, rows)
              IN  /\ (primary = <<>> /\ adjacent # {}) =>
                        /\ run'[s].success
                        /\ wk[run'[s].worker].region \in near
                        /\ run'[s].region_expanded
                        /\ ~run'[s].fallback_used
                  /\ run'[s].region_expanded => primary = <<>>]_vars


\* C17: a job that is PENDING with payment PENDING and older than 15
\* minutes is, by the payment-timeout sweep, cancelled as a transition of
\* the state machine: status CANCELLED, version one higher, one more audit
\* entry, and a history row PENDING -> CANCELLED written by the system
\* with the reason
C17_PaymentTimeoutIsTransition ==
    [][\A j \in JobIds :
          LET stale == /\ job[j].status = PENDING
                       /\ job[j].payment_status = PAY_PENDING
                       /\ job[j].created_at = OVER_LIMIT
              swept == /\ Len(history'[j]) = Len(history[j]) + 1
                       /\ history'[j][Len(history'[j])].by_system
                       /\ history'[j][Len(history'[j])].reason # NULL
          IN  (stale /\ swept) =>
                 /\ job'[j].status = CANCELLED
                 /\ history'[j][Len(history'[j])].previous_status = PENDING
                 /\ history'[j][Len(history'[j])].new_status = CANCELLED
                 /\ job'[j].version = job[j].version + 1
                 /\ Len(audit'[j]) = Len(audit[j]) + 1]_vars


\* C18: a worker in cooling_down leaves that status only when its expiry
\* has passed, and then as the release sweep does it: available, expiry
\* cleared; no operation makes a cooling_down worker available before the
\* expiry has passed
C18_CooldownHeldUntilRelease ==
    [][\A c \in Cleaners :
          (profile[c].status = COOLING_DOWN /\ profile'[c].status # COOLING_DOWN)
          => /\ profile[c].cooldown_expires_at = PAST
             /\ profile'[c].status = AVAILABLE
             /\ profile'[c].cooldown_expires_at = NULL]_vars


\* C19: a start-SLA sweep publishes at most one JOB_DELAYED event for a
\* job, exactly one for a job that is ASSIGNED with now past its
\* sla_deadline, and none for a job that is not past its sla_deadline; the
\* sweep changes no job and no worker
C19_OneAlertPerLateJob ==
    [][(events' # events /\ job' = job /\ history' = history) =>
          \A j \in JobIds :
             LET new == alerts(events', j) - alerts(events, j)
                 past == job[j].sla_deadline = SET /\ clock[j].sla_due
             IN  /\ new \in {0, 1}
                 /\ (job[j].status = ASSIGNED /\ past) => new = 1
                 /\ new = 1 => past
                 /\ profile' = profile /\ emp' = emp]_vars


\* C20: the total of a priced booking is (subtotal x demand x rush -
\* discount) plus 5% tax on that amount, each step rounded half-up to
\* cents; subtotal 100, demand 1.05, rush 1.15, discount 10 give 120.71
C20_PricingComposition ==
    LET half_up(n, d) == IF 2 * (n % d) >= d THEN n \div d + 1 ELSE n \div d
        adjusted == half_up(quote.subtotal * quote.demand_multiplier
                                * quote.rush_premium, 10000)
        net == adjusted - quote.discount_amount
        tax == half_up(net * 5, 100)
    IN  quote.priced =>
           /\ net >= 0 => quote.total_price = net + tax
           /\ (/\ quote.subtotal = 10000 /\ quote.demand_multiplier = 105
               /\ quote.rush_premium = 115 /\ quote.discount_amount = 1000)
              => quote.total_price = 12071


\* C21: a worker's operational status, cooldown expiry and completed/failed
\* counters change only in a step that commits a state-machine transition
\* (the version of a job goes up and an audit row is written) or in the
\* cooldown-release sweep
\* (cooling_down with the expiry passed becomes available, expiry
\* cleared); every other operation leaves them as they were
C21_WorkerWrittenOnlyByTransitions ==
    [][\A c \in Cleaners :
          LET written ==
                  \/ profile'[c].status # profile[c].status
                  \/ profile'[c].total_jobs_completed # profile[c].total_jobs_completed
                  \/ profile'[c].total_jobs_failed # profile[c].total_jobs_failed
                  \/ (profile'[c].cooldown_expires_at = NULL)
                        # (profile[c].cooldown_expires_at = NULL)
              transition == \E j \in JobIds :
                               /\ Exists(j)
                               /\ job'[j].version = job[j].version + 1
                               /\ Len(audit'[j]) = Len(audit[j]) + 1
              release == /\ profile[c].status = COOLING_DOWN
                         /\ profile[c].cooldown_expires_at = PAST
                         /\ profile'[c].status = AVAILABLE
                         /\ profile'[c].cooldown_expires_at = NULL
          IN  written => (transition \/ release)]_vars


\* C22: the job events the subscriber has been called with are, in that
\* order, the first of the events of the job's committed status changes:
\* no event reaches the subscriber before the event of an earlier change
C22_EventsInTransitionOrder ==
    \A j \in JobIds :
        /\ Len(bus[j].seen) <= Len(events[j])
        /\ bus[j].seen = SubSeq(events[j], 1, Len(bus[j].seen))

C24_BoundedAttempts ==
    LET t == tries.tried
        assigned == {k \in DOMAIN t : t[k].out = "assigned"}
    IN  /\ Len(t) <= MAX_CANDIDATES_TO_TRY
        /\ \A k \in DOMAIN t :
              /\ t[k].candidate = tries.cands[k]
              /\ t[k].took <= ASSIGNMENT_TIMEOUT_SECONDS
              /\ \A m \in DOMAIN t : m < k =>
                    /\ t[m].candidate # t[k].candidate
                    /\ CandScore[t[m].candidate] >= CandScore[t[k].candidate]
        /\ \A a, b \in DOMAIN tries.cands :
              a < b => CandScore[tries.cands[a]] >= CandScore[tries.cands[b]]
        /\ tries.pc = "done" =>
              IF assigned # {}
              THEN /\ tries.result.success
                   /\ assigned = {Len(t)}
                   /\ tries.result.assigned_employee = t[Len(t)].candidate
              ELSE /\ ~tries.result.success
                   /\ tries.result.failure_reason =
                         IF tries.cands = <<>> THEN "No available cleaners found"
                         ELSE "All candidates rejected or timed out"

\* C25: for one (region, date), whatever the interleaving of the allocate
\* calls, the cached metrics have total_allocations = successful + failed =
\* the number of calls finished
C25_MetricsCountEveryCall ==
    /\ metrics.cache.total_allocations
          = metrics.cache.successful + metrics.cache.failed
    /\ metrics.cache.total_allocations = metrics.finished

\* C26: a sweep that raises an error does not end its loop, and the next
\* sweep of that loop still happens (while the loops have sweeps left to
\* make); once stop() is called no sweep starts
\* any more and every loop ends, whether it was asleep or inside a sweep
C26_LoopsSurviveErrorsAndStop ==
    /\ [](~loops.stopped => \A l \in Loops : loops.task[l].pc # "ended")
    /\ \A l \in Loops : \A n \in 1..(MaxSweeps - 1) :
          (/\ Len(loops.task[l].log) = n
           /\ loops.task[l].log[n] = "raised"
           /\ loops.task[l].pc = "sleep")
             ~> \/ loops.stopped
                \/ sweeps_begun(l) > n
                \/ total_sweeps(Loops) = MaxSweeps
    /\ [][loops.stopped => \A l \in Loops : sweeps_begun(l)' = sweeps_begun(l)]_vars
    /\ loops.stopped ~> \A l \in Loops : loops.task[l].pc = "ended"

\* stop() found one loop inside a sweep and one asleep, all loops have ended,
\* and before that a loop had made a sweep after one that raised
C26_Witness ==
    /\ loops.stopped
    /\ \A l \in Loops : loops.task[l].pc = "ended"
    /\ \E l \in Loops : loops.at_stop[l] = "sweep"
    /\ \E l \in Loops : loops.at_stop[l] = "sleep"
    /\ \E l \in Loops : /\ Len(loops.task[l].log) = 2
                        /\ loops.task[l].log[1] = "raised"

\* C27: a job in ASSIGNED has assigned_at set and sla_deadline set to
\* scheduled_date + 10 min, whichever operation assigned it, and also after
\* it was rescheduled
C27_AssignedHasDeadline ==
    \A j \in JobIds :
        (Exists(j) /\ job[j].status = ASSIGNED)
        => /\ job[j].assigned_at = SET
           /\ job[j].sla_deadline = SET
           /\ clock[j].first = "both"

\* C28: the status history of a job is a complete chain: its first row has
\* no previous status, every later row starts from the status the row before
\* it ended in, and the last row ends in the job's current status
C28_HistoryIsCompleteChain ==
    \A j \in JobIds :
        Exists(j) =>
           LET h == history[j]
           IN  /\ h # <<>>
               /\ h[1].previous_status = NULL
               /\ \A k \in 2..Len(h) : h[k].previous_status = h[k - 1].new_status
               /\ h[Len(h)].new_status = job[j].status

\* C29: a job whose payment is confirmed is never cancelled by the
\* payment-timeout sweep, and a job the sweep has cancelled is never
\* afterwards moved to CONFIRMED by a payment confirmation
C29_SweepAndPaymentExclude ==
    [][\A j \in JobIds :
          LET h == history[j]
              swept(hh) == /\ hh # <<>>
                           /\ hh[Len(hh)].by_system
                           /\ hh[Len(hh)].new_status = CANCELLED
          IN  Exists(j) =>
                 /\ (job[j].payment_status = PAY_PAID /\ ~swept(h))
                       => ~swept(history'[j])
                 /\ (job[j].status = CANCELLED /\ swept(h))
                       => job'[j].status # CONFIRMED]_vars

\* C30: a job in PENDING_ASSIGNMENT has no worker reference, neither a
\* cleaner nor an assigned employee
C30_PendingAssignmentHasNoWorker ==
    \A j \in JobIds :
        (Exists(j) /\ job[j].status = PENDING_ASSIGNMENT)
        => /\ job[j].cleaner_id = NULL
           /\ job[j].assigned_employee_id = NULL
====
